---- MODULE Spec2Model ----
(***************************************************************************)
(* CI helper scripts of argo-apps: the privilege checker                   *)
(* (scripts/ci/check_privileges.py), the child pipeline generator          *)
(* (scripts/ci/generate_pipeline.py) and the standalone validators         *)
(* (scripts/ci/validate_argocd.py, scripts/ci/validate_helm.py).           *)
(*                                                                         *)
(* Python dicts are functions whose domain is the set of keys present, so  *)
(* d.get(k, default) is Get(d, k, default).  Python lists are sequences.   *)
(***************************************************************************)
EXTENDS Integers, Sequences, FiniteSets, Bags, TLC

VARIABLES
    \* ---- privilege checker process (check_privileges.main) ----
    script,          \* which script this process runs
    toolInstalled,   \* the script's external executable is on PATH
    failOnHigh,      \* args.fail_on_high
    jsonArg,         \* args.json given
    kustomizations,  \* check_all: the set of directories to scan
    buildOut,        \* what `kustomize build <dir>` does, per directory
    pcMain,          \* position of the main thread
    task,            \* per directory: the pool task build_and_check_kustomization
    findings,        \* self.findings, shared by all tasks
    buildCalls,      \* per directory: number of build_manifests calls
    collected,       \* futures whose result the as_completed loop consumed
    failedDirs,      \* directories the collection loop reported as failed
    numFindings,     \* value returned by check_all
    printed,         \* findings in the order print_report prints them
    jsonReport,      \* report written by save_json_report
    exitCode,        \* value returned by main
    \* ---- standalone validators (validate_argocd.main, validate_helm.main) ----
    versionOk,       \* `kubeconform -v` runs and exits 0
    items,           \* number of manifests / Helm apps found
    itemOut,         \* what validating each item does
    idx,             \* items the validate_all loop has gone through
    errors,          \* self.errors
    validated_count, \* self.validated_count
    skipped_count,   \* self.skipped_count
    \* ---- one call of PrivilegeChecker.check_resource ----
    argResource,     \* the resource passed to check_resource
    pcRule,          \* "start", then "done" or "raised"
    \* ---- one call of PrivilegeChecker.parse_manifests ----
    argManifestYaml, \* the text passed to parse_manifests
    retResources,    \* the list it returns
    pcParse,         \* "start", then "done"
    \* ---- one call of get_changed_files ----
    resolver,        \* "generate_pipeline" or "check_privileges"
    presetFiles,     \* self.changed_files given to the constructor
    env,             \* the CI_* environment variables that are set
    gitOut,          \* what the first and the second git invocation do
    gitCalls,        \* the git command lines run so far
    pcDiff,          \* "start", "fetched", "returned" or "raised"
    retChangedFiles, \* the list get_changed_files returns
    \* ---- one call of get_affected_manifests ----
    markers,         \* directories that contain kustomization.yaml
    argChangedFiles, \* the changed_files argument
    retAffected,     \* the mapping it returns
    pcMap,           \* "start", then "done"
    \* ---- one call of PrivilegeChecker.get_affected_kustomizations ----
    scanDirsOnDisk,  \* the SCAN_DIRECTORIES entries that exist
    retKustomizations, \* the set it returns
    pcKust,          \* "start", "loop", "walking", then "done"
    pendingFiles,    \* the changed files its for loop has yet to visit
    current,         \* the cursor of its while loop
    \* ---- generate_pipeline.main, and one call of generate_child_pipeline ----
    argManifests,    \* the mapping passed to generate_child_pipeline
    childPipeline,   \* the pipeline dict being built
    pipelineFile,    \* what main writes to child-pipeline.yml
    pcPipe           \* position of main, or of the single call

scanVars == <<script, toolInstalled, failOnHigh, jsonArg, kustomizations,
              buildOut, pcMain, task, findings, buildCalls, collected,
              failedDirs, numFindings, printed, jsonReport, exitCode>>

validatorVars == <<versionOk, items, itemOut, idx, errors, validated_count,
                   skipped_count>>

ruleVars == <<argResource, pcRule>>

parseVars == <<argManifestYaml, retResources, pcParse>>

diffVars == <<resolver, presetFiles, env, gitOut, gitCalls, pcDiff, retChangedFiles>>

mapVars == <<markers, argChangedFiles, retAffected, pcMap, scanDirsOnDisk,
             retKustomizations, pcKust, pendingFiles, current>>

pipeVars == <<argManifests, childPipeline, pipelineFile, pcPipe>>

\* the state of the single-function runs
pureVars == <<ruleVars, parseVars, diffVars, mapVars, pipeVars>>

\* everything but the privilege checker's own state
nonScanVars == <<validatorVars, pureVars>>

vars == <<scanVars, nonScanVars>>

----------------------------------------------------------------------------
(* Python helpers *)

EmptyDict == [k \in {} |-> TRUE]

\* the value None stored under a key whose value is otherwise a dict
None == [py_none |-> TRUE]

IsNone(v) == "py_none" \in DOMAIN v

Get(d, k, default) == IF k \in DOMAIN d THEN d[k] ELSE default

Range(s) == {s[i] : i \in 1..Len(s)}

RECURSIVE Filter(_, _)
\* [f for f in s if f.<field> == value], for the severity field
Filter(s, sev) ==
    IF s = <<>> THEN <<>>
    ELSE IF Head(s).severity = sev
         THEN <<Head(s)>> \o Filter(Tail(s), sev)
         ELSE Filter(Tail(s), sev)

----------------------------------------------------------------------------
(* Parts of the state a run does not use stay at these values *)

RuleIdle == argResource = EmptyDict /\ pcRule = "idle"

ParseIdle == argManifestYaml = <<>> /\ retResources = <<>> /\ pcParse = "idle"

DiffIdle ==
    /\ resolver = "none"
    /\ presetFiles = <<>>
    /\ env = EmptyDict
    /\ gitOut = <<>>
    /\ gitCalls = <<>>
    /\ pcDiff = "idle"
    /\ retChangedFiles = <<>>

MapIdle ==
    /\ markers = {} /\ argChangedFiles = <<>> /\ retAffected = EmptyDict /\ pcMap = "idle"
    /\ scanDirsOnDisk = {} /\ retKustomizations = {} /\ pcKust = "idle"
    /\ pendingFiles = <<>> /\ current = <<>>

PipeIdle ==
    /\ argManifests = EmptyDict /\ childPipeline = EmptyDict
    /\ pipelineFile = EmptyDict /\ pcPipe = "idle"

PureIdle == RuleIdle /\ ParseIdle /\ DiffIdle /\ MapIdle /\ PipeIdle

ValidatorIdle ==
    /\ versionOk = TRUE
    /\ items = 0
    /\ itemOut = <<>>
    /\ idx = 0
    /\ errors = <<>>
    /\ validated_count = 0
    /\ skipped_count = 0

----------------------------------------------------------------------------
(* SecurityFinding and the rule engine PrivilegeChecker.check_resource *)

Severities == {"high", "medium", "low"}

\* a kind list that also takes Service
MonitoredKindsAndService ==
    {"Pod", "Deployment", "StatefulSet", "DaemonSet", "Job", "CronJob", "ReplicaSet",
     "Service"}

MonitoredKinds ==
    {"Pod", "Deployment", "StatefulSet", "DaemonSet", "Job", "CronJob", "ReplicaSet"}

DANGEROUS_CAPABILITIES ==
    {"SYS_ADMIN", "NET_ADMIN", "SYS_MODULE", "SYS_RAWIO", "SYS_PTRACE", "DAC_OVERRIDE"}

SecurityFinding(sev, chk, dir, kind, rname, ns, det) ==
    [severity |-> sev, check |-> chk, manifest_dir |-> dir, resource_kind |-> kind,
     resource_name |-> rname, namespace |-> ns, details |-> det, line_context |-> ""]

\* ctx: the fields every finding of one resource shares
Ctx(dir, kind, name, ns) == [dir |-> dir, kind |-> kind, name |-> name, ns |-> ns]

\* a hostNetwork rule that reports a fourth severity
HostNetworkFindingsCritical(pod_spec, c) ==
    IF Get(pod_spec, "hostNetwork", FALSE)
    THEN <<SecurityFinding("critical", "hostNetwork", c.dir, c.kind, c.name, c.ns,
                           "Pod uses host network namespace")>>
    ELSE <<>>

HostNetworkFindings(pod_spec, c) ==
    IF Get(pod_spec, "hostNetwork", FALSE)
    THEN <<SecurityFinding("high", "hostNetwork", c.dir, c.kind, c.name, c.ns,
                           "Pod uses host network namespace")>>
    ELSE <<>>

HostPIDFindings(pod_spec, c) ==
    IF Get(pod_spec, "hostPID", FALSE)
    THEN <<SecurityFinding("high", "hostPID", c.dir, c.kind, c.name, c.ns,
                           "Pod uses host PID namespace")>>
    ELSE <<>>

\* a hostIPC rule that reports high severity
HostIPCFindingsHigh(pod_spec, c) ==
    IF Get(pod_spec, "hostIPC", FALSE)
    THEN <<SecurityFinding("high", "hostIPC", c.dir, c.kind, c.name, c.ns,
                           "Pod uses host IPC namespace")>>
    ELSE <<>>

HostIPCFindings(pod_spec, c) ==
    IF Get(pod_spec, "hostIPC", FALSE)
    THEN <<SecurityFinding("medium", "hostIPC", c.dir, c.kind, c.name, c.ns,
                           "Pod uses host IPC namespace")>>
    ELSE <<>>

ContainerResourceName(c, container) ==
    c.name \o "/" \o Get(container, "name", "unknown")

PrivilegedFindings(container, c) ==
    LET security_context == Get(container, "securityContext", EmptyDict)
    IN IF Get(security_context, "privileged", FALSE)
       THEN <<SecurityFinding("high", "privileged", c.dir, c.kind,
                              ContainerResourceName(c, container), c.ns,
                              "Container runs in privileged mode")>>
       ELSE <<>>

\* a rule that follows the Kubernetes default: flagged unless set to false
AllowPrivilegeEscalationDefaultTrue(container, c) ==
    LET security_context == Get(container, "securityContext", EmptyDict)
    IN IF Get(security_context, "allowPrivilegeEscalation", TRUE)
       THEN <<SecurityFinding("medium", "allowPrivilegeEscalation", c.dir, c.kind,
                              ContainerResourceName(c, container), c.ns,
                              "Container allows privilege escalation")>>
       ELSE <<>>

AllowPrivilegeEscalationFindings(container, c) ==
    LET security_context == Get(container, "securityContext", EmptyDict)
    IN IF Get(security_context, "allowPrivilegeEscalation", TRUE)
          /\ "allowPrivilegeEscalation" \in DOMAIN security_context
       THEN <<SecurityFinding("medium", "allowPrivilegeEscalation", c.dir, c.kind,
                              ContainerResourceName(c, container), c.ns,
                              "Container allows privilege escalation")>>
       ELSE <<>>

\* a rule in which the pod-level value wins when set
RunAsRootPodWins(container, pod_security_context, c) ==
    LET security_context == Get(container, "securityContext", EmptyDict)
        flagged ==
            IF "runAsNonRoot" \in DOMAIN pod_security_context
            THEN pod_security_context["runAsNonRoot"] = FALSE
            ELSE /\ "runAsNonRoot" \in DOMAIN security_context
                 /\ security_context["runAsNonRoot"] = FALSE
    IN IF flagged
       THEN <<SecurityFinding("medium", "runAsRoot", c.dir, c.kind,
                              ContainerResourceName(c, container), c.ns,
                              "Container explicitly allows running as root")>>
       ELSE <<>>

\* runAsNonRoot is absent (None) or a boolean; the container value wins when set
RunAsRootFindings(container, pod_security_context, c) ==
    LET security_context == Get(container, "securityContext", EmptyDict)
        flagged ==
            IF "runAsNonRoot" \in DOMAIN security_context
            THEN security_context["runAsNonRoot"] = FALSE
            ELSE /\ "runAsNonRoot" \in DOMAIN pod_security_context
                 /\ pod_security_context["runAsNonRoot"] = FALSE
    IN IF flagged
       THEN <<SecurityFinding("medium", "runAsRoot", c.dir, c.kind,
                              ContainerResourceName(c, container), c.ns,
                              "Container explicitly allows running as root")>>
       ELSE <<>>

RECURSIVE CapabilityLoop(_, _, _)
\* for cap in added_caps: one finding per dangerous entry
CapabilityLoop(added_caps, container, c) ==
    IF added_caps = <<>> THEN <<>>
    ELSE (IF Head(added_caps) \in DANGEROUS_CAPABILITIES
          THEN <<SecurityFinding("high", "dangerousCapability", c.dir, c.kind,
                                 ContainerResourceName(c, container), c.ns,
                                 "Container adds dangerous capability: "
                                     \o Head(added_caps))>>
          ELSE <<>>)
         \o CapabilityLoop(Tail(added_caps), container, c)

\* a rule that reports a container once however many capabilities match
CapabilityFindingsOnce(container, c) ==
    LET security_context == Get(container, "securityContext", EmptyDict)
        capabilities == Get(security_context, "capabilities", EmptyDict)
        added_caps == Get(capabilities, "add", <<>>)
        all == CapabilityLoop(added_caps, container, c)
    IN IF all = <<>> THEN <<>> ELSE <<all[1]>>

CapabilityFindings(container, c) ==
    LET security_context == Get(container, "securityContext", EmptyDict)
        capabilities == Get(security_context, "capabilities", EmptyDict)
        added_caps == Get(capabilities, "add", <<>>)
    IN CapabilityLoop(added_caps, container, c)

\* the body of `for container in containers`
ContainerFindings(container, pod_security_context, c) ==
    PrivilegedFindings(container, c)
    \o AllowPrivilegeEscalationFindings(container, c)
    \o RunAsRootFindings(container, pod_security_context, c)
    \o CapabilityFindings(container, c)

RECURSIVE ContainerLoop(_, _, _)
ContainerLoop(containers, pod_security_context, c) ==
    IF containers = <<>> THEN <<>>
    ELSE ContainerFindings(Head(containers), pod_security_context, c)
         \o ContainerLoop(Tail(containers), pod_security_context, c)

RECURSIVE VolumeLoop(_, _)
\* for volume in volumes: one finding per volume with a hostPath key
VolumeLoop(volumes, c) ==
    IF volumes = <<>> THEN <<>>
    ELSE (IF "hostPath" \in DOMAIN Head(volumes)
          THEN <<SecurityFinding("high", "hostPath", c.dir, c.kind, c.name, c.ns,
                                 "Pod mounts host path: "
                                     \o Get(Head(volumes)["hostPath"], "path", "unknown"))>>
          ELSE <<>>)
         \o VolumeLoop(Tail(volumes), c)

\* a rule that looks at the volumes only of a pod spec that has containers
HostPathFindingsNeedContainer(pod_spec, c) ==
    IF Get(pod_spec, "containers", <<>>) = <<>> THEN <<>>
    ELSE VolumeLoop(Get(pod_spec, "volumes", <<>>), c)

HostPathFindings(pod_spec, c) == VolumeLoop(Get(pod_spec, "volumes", <<>>), c)

\* a container list that leaves the init containers out
RegularContainers(pod_spec) == Get(pod_spec, "containers", <<>>)

\* pod_spec.get("containers", []) + pod_spec.get("initContainers", [])
AllContainers(pod_spec) ==
    Get(pod_spec, "containers", <<>>) \o Get(pod_spec, "initContainers", <<>>)

\* a rule engine in which a host-level finding ends the check of the resource
PodSpecFindingsShortCircuit(pod_spec, c) ==
    LET pod_security_context == Get(pod_spec, "securityContext", EmptyDict)
        containers == AllContainers(pod_spec)
        host == HostNetworkFindings(pod_spec, c)
                \o HostPIDFindings(pod_spec, c)
                \o HostIPCFindings(pod_spec, c)
    IN IF host # <<>> THEN host
       ELSE ContainerLoop(containers, pod_security_context, c)
            \o HostPathFindings(pod_spec, c)

\* the rules applied to an extracted pod spec, in source order
PodSpecFindings(pod_spec, c) ==
    LET pod_security_context == Get(pod_spec, "securityContext", EmptyDict)
        containers == AllContainers(pod_spec)
    IN HostNetworkFindings(pod_spec, c)
       \o HostPIDFindings(pod_spec, c)
       \o HostIPCFindings(pod_spec, c)
       \o ContainerLoop(containers, pod_security_context, c)
       \o HostPathFindings(pod_spec, c)

\* a lookup that takes the metadata key as required: without it there is
\* nothing to read the name from
MetadataRequired(resource) ==
    IF "metadata" \in DOMAIN resource THEN resource["metadata"] ELSE None

\* resource.get("metadata", {})
MetadataOf(resource) == Get(resource, "metadata", EmptyDict)

\* the index of the first container whose securityContext key holds None, on
\* which security_context.get("privileged") raises AttributeError; 0 if none
FirstNullContext(containers) ==
    LET nulls == {i \in 1..Len(containers) :
                     IsNone(Get(containers[i], "securityContext", EmptyDict))}
    IN IF nulls = {} THEN 0
       ELSE CHOOSE i \in nulls : \A j \in nulls : i <= j

\* the rules on a pod spec up to the exception, if one is raised: the
\* host-level findings and those of the containers before the raising one
\* are appended by then
PodSpecChecked(pod_spec, c) ==
    LET containers == AllContainers(pod_spec)
        k == FirstNullContext(containers)
    IN IF k = 0
       THEN [findings |-> PodSpecFindings(pod_spec, c), raised |-> FALSE]
       ELSE [findings |-> HostNetworkFindings(pod_spec, c)
                          \o HostPIDFindings(pod_spec, c)
                          \o HostIPCFindings(pod_spec, c)
                          \o ContainerLoop(SubSeq(containers, 1, k - 1),
                                           Get(pod_spec, "securityContext", EmptyDict), c),
             raised |-> TRUE]

\* check_resource: the findings it appends, in order, and whether it raised
\* (AttributeError on a None metadata / spec / template / securityContext)
CheckResource(resource, manifest_dir) ==
    LET kind == Get(resource, "kind", "Unknown")
        metadata == MetadataOf(resource)
        spec == Get(resource, "spec", EmptyDict)
        raise == [findings |-> <<>>, raised |-> TRUE]
    IN IF IsNone(metadata) THEN raise
       ELSE IF kind \notin MonitoredKinds THEN [findings |-> <<>>, raised |-> FALSE]
       ELSE IF IsNone(spec) THEN raise
       ELSE LET c == Ctx(manifest_dir, kind, Get(metadata, "name", "unknown"),
                         Get(metadata, "namespace", "default"))
                template == Get(spec, "template", EmptyDict)
            IN IF kind = "Pod"
               THEN PodSpecChecked(spec, c)
               ELSE IF IsNone(template) THEN raise
               ELSE PodSpecChecked(Get(template, "spec", EmptyDict), c)

----------------------------------------------------------------------------
(* Rendered manifest text and PrivilegeChecker.parse_manifests *)

\* A manifest text is the sequence of its YAML documents; "" is <<>>.  A
\* document is a mapping with its data, a scalar, a sequence, an empty
\* document (loads as None), or text the YAML parser rejects.
MappingDoc(data) == [form |-> "mapping", data |-> data]
ScalarDoc == [form |-> "scalar"]
SequenceDoc == [form |-> "sequence"]
EmptyDoc == [form |-> "empty"]
MalformedDoc == [form |-> "malformed"]

\* `doc and isinstance(doc, dict)`
IsResourceDoc(doc) == doc.form = "mapping" /\ DOMAIN doc.data # {}

RECURSIVE LoadAll(_, _)
\* the loop over yaml.safe_load_all: documents are loaded one at a time, and
\* the YAMLError of the first malformed one ends the loop; it is caught and
\* the resources appended so far are returned
LoadAll(docs, resources) ==
    IF docs = <<>> THEN resources
    ELSE IF Head(docs).form = "malformed" THEN resources
    ELSE IF IsResourceDoc(Head(docs))
         THEN LoadAll(Tail(docs), Append(resources, Head(docs).data))
         ELSE LoadAll(Tail(docs), resources)

ParseManifests(manifest_yaml) == LoadAll(manifest_yaml, <<>>)

----------------------------------------------------------------------------
(* External build and PrivilegeChecker.build_manifests *)

BuildOk(stdout) == [kind |-> "ok", stdout |-> stdout]
BuildNonzero == [kind |-> "nonzero", stdout |-> <<>>]
BuildTimeout == [kind |-> "timeout", stdout |-> <<>>]
\* subprocess.run raises FileNotFoundError when kustomize is not installed
BuildOSError == [kind |-> "oserror", stdout |-> <<>>]

\* a build_manifests that returns whatever the command printed, whatever
\* became of it
BuildManifestsAnyExit(outcome) == outcome.stdout

\* build_manifests: stdout on exit 0, "" on every failure; never raises
BuildManifests(outcome) ==
    IF outcome.kind = "ok" THEN outcome.stdout ELSE <<>>

RECURSIVE CheckResources(_, _)
\* `for resource in resources: self.check_resource(resource, kustomize_dir)`:
\* the findings appended, in order, and whether a check_resource call raised
CheckResources(resources, kustomize_dir) ==
    IF resources = <<>> THEN [findings |-> <<>>, raised |-> FALSE]
    ELSE LET first == CheckResource(Head(resources), kustomize_dir)
             rest == CheckResources(Tail(resources), kustomize_dir)
         IN IF first.raised THEN first
            ELSE [findings |-> first.findings \o rest.findings, raised |-> rest.raised]

RECURSIVE CheckResourcesContinue(_, _)
\* a loop that goes on with the next resource when check_resource raised
CheckResourcesContinue(resources, kustomize_dir) ==
    IF resources = <<>> THEN <<>>
    ELSE CheckResource(Head(resources), kustomize_dir).findings
         \o CheckResourcesContinue(Tail(resources), kustomize_dir)

\* a build_and_check_kustomization that catches the exception of each
\* check_resource call and checks the remaining resources
BuildAndCheckContinue(outcome, kustomize_dir) ==
    LET manifests_yaml == BuildManifests(outcome)
        resources == ParseManifests(manifests_yaml)
    IN IF manifests_yaml = <<>>
       THEN [findings |-> <<>>, raised |-> FALSE, ret |-> 0]
       ELSE [findings |-> CheckResourcesContinue(resources, kustomize_dir),
             raised |-> FALSE, ret |-> Len(resources)]

\* one run of build_and_check_kustomization on a build outcome
BuildAndCheck(outcome, kustomize_dir) ==
    LET manifests_yaml == BuildManifests(outcome)
        resources == ParseManifests(manifests_yaml)
        checked == CheckResources(resources, kustomize_dir)
    IN IF manifests_yaml = <<>>
       THEN [findings |-> <<>>, raised |-> FALSE, ret |-> 0]
       ELSE [findings |-> checked.findings, raised |-> checked.raised,
             ret |-> Len(resources)]

----------------------------------------------------------------------------
(* Inputs of the privilege checker process *)

\* number of kustomization directories in the repository
MaxDirs == 2

\* a pool without a worker thread
NoWorkers == Cardinality({})

MAX_WORKERS == 4

\* the directories, in the order sorted() gives them
DirList ==
    <<"apps", "apps/a", "apps/b", "apps/parent", "apps/parent/child",
      "apps/parent/child/leaf", "apps/parent/child/leaf/deep", "argocd/c",
      "infrastructure/d", "infrastructure/e">>

Dirs == {DirList[i] : i \in 1..MaxDirs}

DirIndex(d) == CHOOSE i \in 1..Len(DirList) : DirList[i] = d

\* a Pod on the host network whose container sets allowPrivilegeEscalation
PodRisky ==
    [kind |-> "Pod", metadata |-> [name |-> "web", namespace |-> "prod"],
     spec |-> [hostNetwork |-> TRUE,
               containers |-> <<[name |-> "app",
                                 securityContext |-> [allowPrivilegeEscalation |-> TRUE]]>>]]

\* a Deployment with two identical unnamed privileged containers
DeployTwins ==
    [kind |-> "Deployment", metadata |-> [name |-> "db"],
     spec |-> [template |-> [spec |->
        [containers |-> <<[securityContext |-> [privileged |-> TRUE]],
                          [securityContext |-> [privileged |-> TRUE]]>>]]]]

PodMedium ==
    [kind |-> "Pod", metadata |-> [name |-> "ipc"], spec |-> [hostIPC |-> TRUE]]

\* `metadata:` with no value loads as None
NullMetadata == [kind |-> "Pod", metadata |-> None]

TextRisky == <<MappingDoc(PodRisky)>>
TextTwins == <<MappingDoc(DeployTwins)>>
TextMedium == <<MappingDoc(PodMedium), EmptyDoc>>
TextNullMetadata == <<MappingDoc(PodMedium), MappingDoc(NullMetadata), MappingDoc(PodRisky)>>

\* a Pod whose second container has `securityContext:` with no value
PodNullContext ==
    [kind |-> "Pod", metadata |-> [name |-> "job"],
     spec |-> [containers |-> <<[name |-> "main",
                                 securityContext |-> [privileged |-> TRUE]],
                                [name |-> "side", securityContext |-> None],
                                [name |-> "last",
                                 securityContext |-> [privileged |-> TRUE]]>>]]

TextNullContext == <<MappingDoc(PodNullContext), MappingDoc(PodRisky)>>

\* what a build can do when kustomize is installed
BuildOutcomes ==
    {BuildNonzero, BuildTimeout, BuildOk(TextRisky), BuildOk(TextTwins),
     BuildOk(TextMedium), BuildOk(TextNullMetadata)}

\* builds whose output makes check_resource raise after it appended a
\* finding, beside builds that fail
RaisingBuilds == {BuildOk(TextNullContext), BuildNonzero}

QueuedTask == [st |-> "queued", trace |-> <<>>, raises |-> FALSE, n |-> 0, ret |-> 0]

InitScan ==
    /\ script = "check_privileges"
    /\ toolInstalled \in BOOLEAN
    /\ failOnHigh \in BOOLEAN
    /\ jsonArg \in BOOLEAN
    /\ kustomizations \in SUBSET Dirs
    /\ buildOut \in [kustomizations -> BuildOutcomes \cup {BuildOSError}]
                        \cup [kustomizations -> RaisingBuilds]
    /\ \A d \in kustomizations : toolInstalled <=> buildOut[d] # BuildOSError
    /\ pcMain = "start"
    /\ task = [d \in kustomizations |-> QueuedTask]
    /\ findings = <<>>
    /\ buildCalls = [d \in kustomizations |-> 0]
    /\ collected = {}
    /\ failedDirs = {}
    /\ numFindings = 0
    /\ printed = <<>>
    /\ jsonReport = EmptyDict
    /\ exitCode = -1
    /\ ValidatorIdle
    /\ PureIdle

----------------------------------------------------------------------------
(* PrivilegeChecker.check_all and the worker pool *)

\* check_all up to the submission of one task per directory; with no
\* directory it returns 0 at once
CheckAllSubmit ==
    /\ script = "check_privileges"
    /\ pcMain = "start"
    /\ pcMain' = IF kustomizations = {} THEN "returned" ELSE "collecting"
    /\ UNCHANGED nonScanVars
    /\ UNCHANGED <<script, toolInstalled, failOnHigh, jsonArg, kustomizations,
                   buildOut, task, findings, buildCalls, collected, failedDirs,
                   numFindings, printed, jsonReport, exitCode>>

Running == {d \in kustomizations : task[d].st \in {"building", "checking"}}

\* a free worker takes the oldest queued task (submitted in sorted order)
TaskStart(d) ==
    /\ pcMain = "collecting"
    /\ task[d].st = "queued"
    /\ Cardinality(Running) < MAX_WORKERS
    /\ \A e \in kustomizations : task[e].st = "queued" => DirIndex(d) <= DirIndex(e)
    /\ task' = [task EXCEPT ![d].st = "building"]
    /\ UNCHANGED nonScanVars
    /\ UNCHANGED <<script, toolInstalled, failOnHigh, jsonArg, kustomizations,
                   buildOut, pcMain, findings, buildCalls, collected, failedDirs,
                   numFindings, printed, jsonReport, exitCode>>

\* build_manifests returns; an empty text ends the task with 0, otherwise the
\* text is parsed and the task goes on to check its resources
TaskBuild(d) ==
    /\ task[d].st = "building"
    /\ LET run == BuildAndCheck(buildOut[d], d)
       IN task' = [task EXCEPT ![d] =
                      IF BuildManifests(buildOut[d]) = <<>>
                      THEN [st |-> "done", trace |-> <<>>, raises |-> FALSE,
                            n |-> 0, ret |-> 0]
                      ELSE [st |-> "checking", trace |-> run.findings,
                            raises |-> run.raised, n |-> 0, ret |-> run.ret]]
    /\ buildCalls' = [buildCalls EXCEPT ![d] = @ + 1]
    /\ UNCHANGED nonScanVars
    /\ UNCHANGED <<script, toolInstalled, failOnHigh, jsonArg, kustomizations,
                   buildOut, pcMain, findings, collected, failedDirs,
                   numFindings, printed, jsonReport, exitCode>>

\* a findings collection that drops a finding equal to one it already holds
ListAppendDedup(lst, item) ==
    IF \E i \in 1..Len(lst) : lst[i] = item THEN lst ELSE Append(lst, item)

\* self.findings.append(finding): one atomic step of the interpreter
ListAppend(lst, item) == Append(lst, item)

\* the task's next self.findings.append
TaskAppend(d) ==
    /\ task[d].st = "checking"
    /\ task[d].n < Len(task[d].trace)
    /\ findings' = ListAppend(findings, task[d].trace[task[d].n + 1])
    /\ task' = [task EXCEPT ![d].n = @ + 1]
    /\ UNCHANGED nonScanVars
    /\ UNCHANGED <<script, toolInstalled, failOnHigh, jsonArg, kustomizations,
                   buildOut, pcMain, buildCalls, collected, failedDirs,
                   numFindings, printed, jsonReport, exitCode>>

\* the task returns len(resources), or the exception of check_resource
\* leaves it
TaskFinish(d) ==
    /\ task[d].st = "checking"
    /\ task[d].n = Len(task[d].trace)
    /\ task' = [task EXCEPT ![d].st = IF task[d].raises THEN "raised" ELSE "done"]
    /\ UNCHANGED nonScanVars
    /\ UNCHANGED <<script, toolInstalled, failOnHigh, jsonArg, kustomizations,
                   buildOut, pcMain, findings, buildCalls, collected, failedDirs,
                   numFindings, printed, jsonReport, exitCode>>

\* a collection loop that lets the exception of future.result() escape
OnTaskExceptionPropagate(pc) == "crashed"

\* what the collection loop does with a future whose result() raised:
\* `except Exception: ... continue`
OnTaskException(pc) == pc

\* one iteration of `for future in as_completed(future_to_dir)`
Collect(d) ==
    /\ pcMain = "collecting"
    /\ d \notin collected
    /\ task[d].st \in {"done", "raised"}
    /\ collected' = collected \cup {d}
    /\ failedDirs' = IF task[d].st = "raised" THEN failedDirs \cup {d} ELSE failedDirs
    /\ pcMain' = IF task[d].st = "raised" THEN OnTaskException(pcMain) ELSE pcMain
    /\ UNCHANGED nonScanVars
    /\ UNCHANGED <<script, toolInstalled, failOnHigh, jsonArg, kustomizations,
                   buildOut, task, findings, buildCalls, numFindings, printed,
                   jsonReport, exitCode>>

\* the loop and the `with` block end; return len(self.findings)
CheckAllReturn ==
    /\ pcMain = "collecting"
    /\ collected = kustomizations
    /\ numFindings' = Len(findings)
    /\ pcMain' = "returned"
    /\ UNCHANGED nonScanVars
    /\ UNCHANGED <<script, toolInstalled, failOnHigh, jsonArg, kustomizations,
                   buildOut, task, findings, buildCalls, collected, failedDirs,
                   printed, jsonReport, exitCode>>

----------------------------------------------------------------------------
(* Report and exit code *)

\* the findings in the order print_report prints them
ReportOrder(fs) == Filter(fs, "high") \o Filter(fs, "medium") \o Filter(fs, "low")

PrintReport ==
    /\ script = "check_privileges"
    /\ pcMain = "returned"
    /\ printed' = ReportOrder(findings)
    /\ pcMain' = "printed"
    /\ UNCHANGED nonScanVars
    /\ UNCHANGED <<script, toolInstalled, failOnHigh, jsonArg, kustomizations,
                   buildOut, task, findings, buildCalls, collected, failedDirs,
                   numFindings, jsonReport, exitCode>>

JsonReport(fs) ==
    [total_findings |-> Len(fs),
     high_severity |-> Len(Filter(fs, "high")),
     medium_severity |-> Len(Filter(fs, "medium")),
     low_severity |-> Len(Filter(fs, "low")),
     findings |-> fs]

\* `if args.json: checker.save_json_report(args.json)`
SaveJsonReport ==
    /\ pcMain = "printed"
    /\ jsonReport' = IF jsonArg THEN JsonReport(findings) ELSE jsonReport
    /\ pcMain' = "saved"
    /\ UNCHANGED nonScanVars
    /\ UNCHANGED <<script, toolInstalled, failOnHigh, jsonArg, kustomizations,
                   buildOut, task, findings, buildCalls, collected, failedDirs,
                   numFindings, printed, exitCode>>

\* a main that fails on high findings whether or not --fail-on-high was given
MainExitCodeAlwaysFail(fail_on_high, fs, num_findings) ==
    IF Len(Filter(fs, "high")) > 0 THEN 1 ELSE 0

\* the value main returns
MainExitCode(fail_on_high, fs, num_findings) ==
    IF fail_on_high /\ Len(Filter(fs, "high")) > 0 THEN 1
    ELSE IF num_findings > 0 THEN 0
    ELSE 0

MainReturn ==
    /\ script = "check_privileges"
    /\ pcMain = "saved"
    /\ exitCode' = MainExitCode(failOnHigh, findings, numFindings)
    /\ pcMain' = "exited"
    /\ UNCHANGED nonScanVars
    /\ UNCHANGED <<script, toolInstalled, failOnHigh, jsonArg, kustomizations,
                   buildOut, task, findings, buildCalls, collected, failedDirs,
                   numFindings, printed, jsonReport>>

----------------------------------------------------------------------------
(* Standalone validators: validate_argocd.py and validate_helm.py *)

\* number of ArgoCD manifests / Helm applications in the repository
MaxItems == 2

\* validate_manifest: kubeconform exits 0, exits nonzero, times out, or
\* subprocess.run raises another exception
ArgoOutcomes == {"valid", "nonzero", "timeout", "exception"}

\* per Helm app: extract_helm_config gives None, there is no values.yaml, the
\* chart's repo is not a string (`repo:` with no value loads as None), or
\* helm template exits 0, exits nonzero, times out, raises
HelmOutcomes ==
    {"no_config", "no_values", "bad_repo", "valid", "nonzero", "timeout", "exception"}

ScanIdle ==
    /\ failOnHigh = FALSE
    /\ jsonArg = FALSE
    /\ kustomizations = {}
    /\ buildOut = <<>>
    /\ task = <<>>
    /\ findings = <<>>
    /\ buildCalls = <<>>
    /\ collected = {}
    /\ failedDirs = {}
    /\ numFindings = 0
    /\ printed = <<>>
    /\ jsonReport = EmptyDict

InitValidator ==
    /\ script \in {"validate_argocd", "validate_helm"}
    /\ toolInstalled \in BOOLEAN
    /\ versionOk \in (IF script = "validate_argocd" /\ toolInstalled
                      THEN BOOLEAN ELSE {toolInstalled})
    /\ items \in 0..MaxItems
    /\ itemOut \in [1..items ->
                      IF script = "validate_argocd" THEN ArgoOutcomes ELSE HelmOutcomes]
    /\ pcMain = "start"
    /\ exitCode = -1
    /\ idx = 0
    /\ errors = <<>>
    /\ validated_count = 0
    /\ skipped_count = 0
    /\ ScanIdle
    /\ PureIdle

\* validate_argocd.main up to the call of validate_all: shutil.which, then
\* `kubeconform -v`; validate_all returns 0 at once when no manifest is found
ArgoMain ==
    /\ script = "validate_argocd"
    /\ pcMain = "start"
    /\ IF ~toolInstalled \/ ~versionOk
       THEN pcMain' = "exited" /\ exitCode' = 1
       ELSE IF items = 0
            THEN pcMain' = "exited" /\ exitCode' = 0
            ELSE pcMain' = "validating" /\ exitCode' = exitCode
    /\ UNCHANGED <<script, toolInstalled, failOnHigh, jsonArg, kustomizations,
                   buildOut, task, findings, buildCalls, collected, failedDirs,
                   numFindings, printed, jsonReport>>
    /\ UNCHANGED validatorVars
    /\ UNCHANGED pureVars

\* validate_helm.main up to the loop of validate_all: shutil.which;
\* validate_all returns 0 at once when no Helm app is found
HelmMain ==
    /\ script = "validate_helm"
    /\ pcMain = "start"
    /\ IF ~toolInstalled
       THEN pcMain' = "exited" /\ exitCode' = 1
       ELSE IF items = 0
            THEN pcMain' = "exited" /\ exitCode' = 0
            ELSE pcMain' = "validating" /\ exitCode' = exitCode
    /\ UNCHANGED <<script, toolInstalled, failOnHigh, jsonArg, kustomizations,
                   buildOut, task, findings, buildCalls, collected, failedDirs,
                   numFindings, printed, jsonReport>>
    /\ UNCHANGED validatorVars
    /\ UNCHANGED pureVars

\* one iteration of `for manifest in manifests: self.validate_manifest(manifest)`
ArgoValidateManifest ==
    /\ script = "validate_argocd"
    /\ pcMain = "validating"
    /\ idx < items
    /\ idx' = idx + 1
    /\ IF itemOut[idx + 1] = "valid"
       THEN validated_count' = validated_count + 1 /\ errors' = errors
       ELSE validated_count' = validated_count /\ errors' = Append(errors, idx + 1)
    /\ UNCHANGED <<versionOk, items, itemOut, skipped_count>>
    /\ UNCHANGED <<scanVars, pureVars>>

\* one iteration of `for app_dir in helm_apps` in HelmValidator.validate_all;
\* repo.startswith("oci://") stands before the try block of
\* validate_helm_chart, so its AttributeError leaves validate_all and main,
\* and the interpreter exits with status 1
HelmValidateApp ==
    /\ script = "validate_helm"
    /\ pcMain = "validating"
    /\ idx < items
    /\ idx' = idx + 1
    /\ LET out == itemOut[idx + 1]
       IN /\ validated_count' = IF out = "valid" THEN validated_count + 1
                                ELSE validated_count
          /\ skipped_count' = IF out = "no_values" THEN skipped_count + 1
                              ELSE skipped_count
          /\ errors' = IF out \in {"nonzero", "timeout", "exception"}
                       THEN Append(errors, idx + 1) ELSE errors
          /\ pcMain' = IF out = "bad_repo" THEN "raised" ELSE pcMain
          /\ exitCode' = IF out = "bad_repo" THEN 1 ELSE exitCode
    /\ UNCHANGED <<versionOk, items, itemOut>>
    /\ UNCHANGED <<script, toolInstalled, failOnHigh, jsonArg, kustomizations,
                   buildOut, task, findings, buildCalls, collected, failedDirs,
                   numFindings, printed, jsonReport>>
    /\ UNCHANGED pureVars

\* the summary of validate_all and the value main returns
ValidateAllReturn ==
    /\ script \in {"validate_argocd", "validate_helm"}
    /\ pcMain = "validating"
    /\ idx = items
    /\ exitCode' = IF errors # <<>> THEN 1 ELSE 0
    /\ pcMain' = "exited"
    /\ UNCHANGED <<script, toolInstalled, failOnHigh, jsonArg, kustomizations,
                   buildOut, task, findings, buildCalls, collected, failedDirs,
                   numFindings, printed, jsonReport>>
    /\ UNCHANGED validatorVars
    /\ UNCHANGED pureVars

----------------------------------------------------------------------------

Init == InitScan \/ InitValidator

Next ==
    \/ CheckAllSubmit
    \/ \E d \in kustomizations : TaskStart(d)
    \/ \E d \in kustomizations : TaskBuild(d)
    \/ \E d \in kustomizations : TaskAppend(d)
    \/ \E d \in kustomizations : TaskFinish(d)
    \/ \E d \in kustomizations : Collect(d)
    \/ CheckAllReturn
    \/ PrintReport
    \/ SaveJsonReport
    \/ MainReturn
    \/ ArgoMain
    \/ HelmMain
    \/ ArgoValidateManifest
    \/ HelmValidateApp
    \/ ValidateAllReturn

Spec == Init /\ [][Next]_vars

----------------------------------------------------------------------------
(* Properties of the privilege checker process *)

RECURSIVE FromDir(_, _)
\* the findings of one directory, in the order they stand in the list
FromDir(fs, d) ==
    IF fs = <<>> THEN <<>>
    ELSE IF Head(fs).manifest_dir = d
         THEN <<Head(fs)>> \o FromDir(Tail(fs), d)
         ELSE FromDir(Tail(fs), d)

\* what one directory's build output produces when scanned on its own
DirFindings(d) == BuildAndCheck(buildOut[d], d).findings

RECURSIVE SequentialFrom(_)
\* the findings list of a scan that runs the directories one after the
\* other in submission order, from the i-th on
SequentialFrom(i) ==
    IF i > Len(DirList) THEN <<>>
    ELSE (IF DirList[i] \in kustomizations THEN DirFindings(DirList[i]) ELSE <<>>)
         \o SequentialFrom(i + 1)

SequentialFindings == SequentialFrom(1)

CheckAllReturned ==
    script = "check_privileges" /\ pcMain \in {"returned", "printed", "saved", "exited"}

MainExited == script = "check_privileges" /\ pcMain = "exited"

\* C1: when check_all has returned, under every interleaving of the tasks each
\* directory was built exactly once, the findings list holds for each
\* directory exactly the findings its resources produce (none lost, none
\* duplicated, nothing else), and the returned count is the sum of the
\* per-directory counts.
FindingsAppendSafe ==
    CheckAllReturned =>
        /\ \A d \in kustomizations :
              /\ buildCalls[d] = 1
              /\ FromDir(findings, d) = DirFindings(d)
        /\ \A i \in 1..Len(findings) : findings[i].manifest_dir \in kustomizations
        /\ numFindings = Len(SequentialFindings)

\* C1 witness: check_all returned after two tasks appended in alternation
FindingsInterleaved ==
    /\ pcMain = "returned"
    /\ Len(findings) >= 3
    /\ findings[1].manifest_dir # findings[2].manifest_dir
    /\ findings[1].manifest_dir = findings[3].manifest_dir

\* C2: for fixed directories and build outputs the findings appear in
\* print_report and in the JSON findings array in one sequence, whatever the
\* interleaving: the sequence of the run that scans the directories one after
\* the other (itself one of the interleavings).
ReportDeterministic ==
    MainExited =>
        /\ printed = ReportOrder(SequentialFindings)
        /\ jsonArg => jsonReport.findings = SequentialFindings

\* C3: main returns 1 exactly when --fail-on-high was given and some finding
\* has severity high, and 0 in every other case.
ExitCodePolicy ==
    MainExited =>
        /\ exitCode \in {0, 1}
        /\ exitCode = 1 <=>
              (failOnHigh /\ \E i \in 1..Len(findings) : findings[i].severity = "high")

\* C3 witness: main returned 1
ExitedOnHigh == MainExited /\ exitCode = 1 /\ failOnHigh

BuildFailed(d) == buildOut[d].kind # "ok"

\* C7: a failed build or a raising task never aborts the scan: the main thread
\* never leaves the collection loop by an exception, and once check_all has
\* returned every other directory was built and checked to its end, its
\* findings are in the list, and the returned count is the length of the list.
TransientFailureNeverAborts ==
    /\ pcMain # "crashed"
    /\ CheckAllReturned =>
          /\ numFindings = Len(findings)
          /\ \A e \in kustomizations : BuildFailed(e) \/ task[e].st = "raised" =>
                \A d \in kustomizations \ {e} :
                    /\ buildCalls[d] = 1
                    /\ task[d].st \in {"done", "raised"}
                    /\ task[d].n = Len(task[d].trace)
                    /\ FromDir(findings, d) = DirFindings(d)

\* C7 witness: check_all returned a positive count although one task raised
\* and was reported as failed
ReturnedDespiteRaise ==
    /\ pcMain = "returned"
    /\ numFindings > 0
    /\ \E e \in failedDirs : \E d \in kustomizations \ {e} :
          /\ task[d].st = "done"
          /\ FromDir(findings, d) # <<>>

\* the resources parse_manifests returns for the directory
ResourcesOf(d) == ParseManifests(BuildManifests(buildOut[d]))

\* the index of the first resource of the directory on which check_resource
\* raises; 0 if it raises on none
FirstRaising(d) ==
    LET bad == {i \in 1..Len(ResourcesOf(d)) :
                   CheckResource(ResourcesOf(d)[i], d).raised}
    IN IF bad = {} THEN 0
       ELSE CHOOSE i \in bad : \A j \in bad : i <= j

RECURSIVE AppendedUpTo(_, _, _)
\* what the check_resource calls on the first k resources append
AppendedUpTo(resources, k, d) ==
    IF k = 0 THEN <<>>
    ELSE AppendedUpTo(resources, k - 1, d) \o CheckResource(resources[k], d).findings

IsPrefix(s, t) == Len(s) <= Len(t) /\ s = SubSeq(t, 1, Len(s))

\* C28: when check_resource raises on a resource of a directory, the task
\* stops there: the directory never contributes more than what was appended
\* up to the exception (the resources after the raising one are not
\* checked), what was appended stays in the list, the directory is reported
\* as failed when it is collected, and check_all still returns the length of
\* the findings list.
RaiseStopsDirectory ==
    \A d \in kustomizations : FirstRaising(d) > 0 =>
        LET appended == AppendedUpTo(ResourcesOf(d), FirstRaising(d), d)
        IN /\ IsPrefix(FromDir(findings, d), appended)
           /\ task[d].st = "done" => task[d].n = 0
           /\ task[d].st = "raised" \/ d \in collected =>
                 FromDir(findings, d) = appended
           /\ d \in collected => d \in failedDirs
           /\ CheckAllReturned =>
                 /\ d \in failedDirs
                 /\ numFindings = Len(findings)

\* C28 witness: check_all returned the count although a directory failed on
\* a resource that is not its last, after a finding of that directory was
\* appended
RaisedMidDirectory ==
    /\ pcMain = "returned"
    /\ numFindings > 0
    /\ \E d \in failedDirs :
          /\ FirstRaising(d) < Len(ResourcesOf(d))
          /\ FromDir(findings, d) # <<>>

\* a second witness of C28's case: what the raising check_resource call
\* itself appended before the exception is in the list
PartialFindingsKept ==
    /\ pcMain = "returned"
    /\ \E d \in failedDirs :
          Len(FromDir(findings, d))
            > Len(AppendedUpTo(ResourcesOf(d), FirstRaising(d) - 1, d))

\* the script went on to build, validate or scan something
WorkBegun ==
    IF script = "check_privileges"
    THEN \E d \in kustomizations : task[d].st # "queued"
    ELSE pcMain = "validating" \/ idx > 0

\* C6: in each script that needs an external tool (kubeconform, helm,
\* kustomize), when the executable is not installed no work ever begins and
\* the process exits nonzero.
MissingToolFatal ==
    ~toolInstalled =>
        /\ ~WorkBegun
        /\ pcMain = "exited" => exitCode # 0

\* validate_all was called: main found its tool
ValidateAllCalled ==
    script \in {"validate_argocd", "validate_helm"} /\ toolInstalled /\ versionOk

\* validating the item failed: the command exited nonzero or timed out, or
\* an exception was raised
ItemFailed(i) == itemOut[i] \in {"nonzero", "timeout", "exception", "bad_repo"}

\* C26: in both validators validate_all is never left by the failure of an
\* item; when it has returned every item was gone through, every failed item
\* is in errors, and the exit code is 1 if an item failed and 0 otherwise,
\* also when nothing was found.
ValidatorExitCode ==
    ValidateAllCalled =>
        /\ pcMain # "raised"
        /\ pcMain = "exited" =>
              /\ idx = items
              /\ Range(errors) = {i \in 1..items : ItemFailed(i)}
              /\ exitCode = (IF \E i \in 1..items : ItemFailed(i) THEN 1 ELSE 0)

\* main has gone through `if args.json: checker.save_json_report(args.json)`
ReportSaved == script = "check_privileges" /\ pcMain \in {"saved", "exited"} /\ jsonArg

\* C24: at every moment every finding in the list has severity high, medium
\* or low, so in the report save_json_report writes total_findings is the sum
\* of the three severity counts and the length of the findings array, which
\* is the findings list.
SeverityCountsSum ==
    /\ \A i \in 1..Len(findings) : findings[i].severity \in {"high", "medium", "low"}
    /\ ReportSaved =>
          /\ jsonReport.total_findings
                = jsonReport.high_severity + jsonReport.medium_severity
                     + jsonReport.low_severity
          /\ jsonReport.total_findings = Len(jsonReport.findings)
          /\ jsonReport.findings = findings
          /\ jsonReport.high_severity
                = Cardinality({i \in 1..Len(findings) : findings[i].severity = "high"})
          /\ jsonReport.medium_severity
                = Cardinality({i \in 1..Len(findings) : findings[i].severity = "medium"})
          /\ jsonReport.low_severity
                = Cardinality({i \in 1..Len(findings) : findings[i].severity = "low"})

\* C24 witness: a report with high and medium findings of two directories
\* was saved
MixedReportSaved ==
    /\ ReportSaved
    /\ Get(jsonReport, "high_severity", 0) >= 2
    /\ Get(jsonReport, "medium_severity", 0) >= 2
    /\ Get(jsonReport, "total_findings", 0)
          = Get(jsonReport, "high_severity", 0) + Get(jsonReport, "medium_severity", 0)

----------------------------------------------------------------------------
(* A single call of check_resource on a fresh PrivilegeChecker *)

\* no script process is running
ProcIdle ==
    /\ script = "none"
    /\ toolInstalled = TRUE
    /\ pcMain = "idle"
    /\ exitCode = -1
    /\ ScanIdle
    /\ ValidatorIdle

\* containers and init containers of a pod spec, together
MaxContainers == 2

SecurityContexts ==
    {[privileged |-> FALSE, allowPrivilegeEscalation |-> FALSE, runAsNonRoot |-> TRUE,
      capabilities |-> [drop |-> <<"ALL">>]],
     [allowPrivilegeEscalation |-> TRUE, runAsNonRoot |-> FALSE],
     [privileged |-> TRUE, capabilities |-> [add |-> <<"SYS_ADMIN", "NET_ADMIN">>]],
     [privileged |-> TRUE, allowPrivilegeEscalation |-> TRUE, runAsNonRoot |-> FALSE,
      capabilities |-> [add |-> <<"CHOWN", "SYS_PTRACE">>]]}

Containers ==
    {[image |-> "nginx"]}
    \cup {[name |-> "container1", image |-> "nginx", securityContext |-> sc] :
            sc \in SecurityContexts}

ContainerLists ==
    UNION {[1..n -> Containers] : n \in 0..MaxContainers}

\* the containers and initContainers lists of a pod spec
ContainerListPairs ==
    {pair \in (ContainerLists \X ContainerLists) :
        Len(pair[1]) + Len(pair[2]) <= MaxContainers}

VolumeLists ==
    {<<>>,
     <<[name |-> "host-vol", hostPath |-> [path |-> "/var/run"]]>>,
     <<[name |-> "tmp", emptyDir |-> EmptyDict], [name |-> "sock", hostPath |-> EmptyDict]>>}

HostFlags == {"hostNetwork", "hostPID", "hostIPC"}

\* a dict with the given keys, each set to True
AllTrue(keys) == [k \in keys |-> TRUE]

\* d1 | d2 for dicts with disjoint keys
Merge(d1, d2) ==
    [k \in DOMAIN d1 \cup DOMAIN d2 |-> IF k \in DOMAIN d1 THEN d1[k] ELSE d2[k]]

\* a dict with key k when the list is not empty
ListField(k, lst) == IF lst = <<>> THEN EmptyDict ELSE [x \in {k} |-> lst]

PodSecurityContexts ==
    {EmptyDict, [securityContext |-> [runAsNonRoot |-> FALSE]],
     [securityContext |-> [runAsNonRoot |-> TRUE]]}

\* the host flags set to true together in a generated pod spec
HostFlagChoices == {{}, {"hostNetwork"}, {"hostNetwork", "hostPID"}, {"hostIPC"}}

PodSpecs ==
    {Merge(Merge(AllTrue(flags), psc),
           Merge(Merge(ListField("containers", pair[1]),
                       ListField("initContainers", pair[2])),
                 ListField("volumes", vs))) :
        flags \in HostFlagChoices, psc \in PodSecurityContexts,
        pair \in ContainerListPairs, vs \in VolumeLists}

\* pod specs in which each host flag is written out as true or false
FlagSpecs ==
    {[hostNetwork |-> net, hostPID |-> pid, hostIPC |-> ipc,
      containers |-> <<[name |-> "test", image |-> "nginx"]>>] :
        net \in BOOLEAN, pid \in BOOLEAN, ipc \in BOOLEAN}

ResourceMetadata == [name |-> "multi-issue-pod", namespace |-> "default"]

PodResource(pod_spec) ==
    [kind |-> "Pod", metadata |-> ResourceMetadata, spec |-> pod_spec]

DeploymentResource(pod_spec) ==
    [kind |-> "Deployment", metadata |-> ResourceMetadata,
     spec |-> [replicas |-> 1, template |-> [spec |-> pod_spec]]]

\* a pod spec with a finding of every rule but hostIPC
RiskyPodSpec ==
    [hostNetwork |-> TRUE, hostPID |-> TRUE,
     securityContext |-> [runAsNonRoot |-> FALSE],
     containers |-> <<[name |-> "container1", image |-> "nginx",
                       securityContext |->
                           [privileged |-> TRUE, allowPrivilegeEscalation |-> TRUE,
                            capabilities |-> [add |-> <<"SYS_ADMIN">>]]]>>,
     volumes |-> <<[name |-> "host-vol", hostPath |-> [path |-> "/var/run"]]>>]

\* the resource of a kind whose pod template is at spec.template.spec
TemplatedResource(kind, pod_spec) ==
    [kind |-> kind, metadata |-> ResourceMetadata,
     spec |-> [template |-> [spec |-> pod_spec]]]

\* resources of kinds that are not monitored, with a risky spec in the place
\* of a Pod's and of a controller's, a resource with no kind, and one whose
\* metadata is null
UnmonitoredResources ==
    {[kind |-> kind, metadata |-> ResourceMetadata, spec |-> RiskyPodSpec] :
        kind \in {"Service", "ConfigMap", "Ingress"}}
    \cup {TemplatedResource(kind, RiskyPodSpec) : kind \in {"Service", "PodTemplate"}}
    \cup {[metadata |-> ResourceMetadata, spec |-> RiskyPodSpec],
          [kind |-> "Service", metadata |-> None, spec |-> RiskyPodSpec]}

\* controllers of every monitored kind; controllers with the risky settings
\* beside the template; a CronJob with its pod spec under spec.jobTemplate
ControllerResources ==
    {TemplatedResource(kind, RiskyPodSpec) : kind \in MonitoredKinds \ {"Pod"}}
    \cup {[kind |-> kind, metadata |-> ResourceMetadata, spec |-> RiskyPodSpec] :
            kind \in {"Deployment", "Job"}}
    \cup {[kind |-> "StatefulSet", metadata |-> ResourceMetadata,
           spec |-> Merge(RiskyPodSpec,
                          [template |-> [spec |-> [containers |->
                                                      <<[name |-> "app"]>>]]])],
          [kind |-> "CronJob", metadata |-> ResourceMetadata,
           spec |-> [schedule |-> "0 * * * *",
                     jobTemplate |-> [spec |-> [template |-> [spec |-> RiskyPodSpec]]]]]}

HostVolume(path) == [name |-> "host-vol", hostPath |-> [path |-> path]]

\* pod specs with several hostPath volumes, with and without containers
HostPathSpecs ==
    {[volumes |-> <<HostVolume("/var/run"), HostVolume("/etc")>>],
     [volumes |-> <<HostVolume("/var/run"), HostVolume("/var/run")>>],
     [volumes |-> <<HostVolume("/var/run"),
                    [name |-> "data", persistentVolumeClaim |-> [claimName |-> "data"]],
                    [name |-> "sock", hostPath |-> EmptyDict]>>,
      containers |-> <<[name |-> "container1", image |-> "nginx",
                        securityContext |-> [privileged |-> TRUE]]>>],
     [volumes |-> <<[name |-> "tmp", emptyDir |-> EmptyDict],
                    [name |-> "cfg", configMap |-> [name |-> "settings"]]>>,
      initContainers |-> <<[name |-> "init", image |-> "busybox"]>>]}

HostPathResources ==
    {PodResource(ps) : ps \in HostPathSpecs}
    \cup {TemplatedResource("DaemonSet", ps) : ps \in HostPathSpecs}

\* metadata with name, namespace or both left out
SparseMetadata ==
    {EmptyDict, [name |-> "test"], [namespace |-> "prod"],
     [name |-> "test", namespace |-> "prod"]}

\* pod specs with optional levels left out: no key at all, containers without
\* securityContext, an empty securityContext, capabilities without add, and
\* findings of an unnamed container
SparsePodSpecs ==
    {EmptyDict,
     [containers |-> <<>>],
     [containers |-> <<[name |-> "test", image |-> "nginx"]>>],
     [initContainers |-> <<[image |-> "busybox"]>>],
     [containers |-> <<[name |-> "test", securityContext |-> EmptyDict]>>],
     [containers |-> <<[name |-> "test",
                        securityContext |-> [capabilities |-> EmptyDict]]>>],
     [containers |-> <<[name |-> "test",
                        securityContext |-> [capabilities |-> [drop |-> <<"ALL">>]]]>>],
     [hostNetwork |-> TRUE,
      containers |-> <<[securityContext |-> [privileged |-> TRUE]]>>],
     [volumes |-> <<[name |-> "sock", hostPath |-> EmptyDict]>>]}

\* Pods and Deployments with any of metadata, spec, template and the pod
\* template's spec left out
SparseResources ==
    {[kind |-> "Pod"], [kind |-> "Deployment"],
     [kind |-> "Pod", metadata |-> [name |-> "test"]],
     [kind |-> "Deployment", spec |-> EmptyDict],
     [kind |-> "Deployment", spec |-> [template |-> EmptyDict]],
     [kind |-> "Deployment", spec |-> [template |-> [metadata |-> EmptyDict]]]}
    \cup {[kind |-> "Pod", spec |-> ps] : ps \in SparsePodSpecs}
    \cup {[kind |-> "Pod", metadata |-> md, spec |-> ps] :
            md \in SparseMetadata, ps \in SparsePodSpecs}
    \cup {[kind |-> "Deployment", metadata |-> md,
           spec |-> [template |-> [spec |-> ps]]] :
            md \in SparseMetadata, ps \in SparsePodSpecs}

WorkloadResources ==
    {PodResource(ps) : ps \in PodSpecs} \cup {DeploymentResource(ps) : ps \in PodSpecs}

RuleResources ==
    WorkloadResources
    \cup {PodResource(ps) : ps \in FlagSpecs}
    \cup UnmonitoredResources
    \cup ControllerResources
    \cup HostPathResources
    \cup SparseResources

InitRule ==
    /\ ProcIdle /\ PipeIdle
    /\ ParseIdle /\ DiffIdle /\ MapIdle
    /\ argResource \in RuleResources
    /\ pcRule = "start"

\* checker.check_resource(resource, Path("apps/test"))
CheckResourceCall ==
    /\ pcRule = "start"
    /\ LET run == CheckResource(argResource, "apps/test")
       IN /\ findings' = findings \o run.findings
          /\ pcRule' = IF run.raised THEN "raised" ELSE "done"
    /\ UNCHANGED <<script, toolInstalled, failOnHigh, jsonArg, kustomizations,
                   buildOut, pcMain, task, buildCalls, collected, failedDirs,
                   numFindings, printed, jsonReport, exitCode>>
    /\ UNCHANGED <<validatorVars, argResource, parseVars, diffVars, mapVars, pipeVars>>

SpecRule == InitRule /\ [][CheckResourceCall]_vars

----------------------------------------------------------------------------
(* Properties of check_resource *)

\* the sequence as a multiset
BagOfSeq(seq) ==
    [x \in Range(seq) |-> Cardinality({i \in 1..Len(seq) : seq[i] = x})]

RestrictKeys(d, keys) == [k \in DOMAIN d \cap keys |-> d[k]]

\* the container with every risk setting but one removed
ProjectContainer(container, key) ==
    IF "securityContext" \in DOMAIN container
    THEN [container EXCEPT !.securityContext = RestrictKeys(@, {key})]
    ELSE container

ProjectContainers(lst, key) == [i \in 1..Len(lst) |-> ProjectContainer(lst[i], key)]

ContainerFactors ==
    {"privileged", "allowPrivilegeEscalation", "runAsNonRoot", "capabilities"}

RiskFactors ==
    <<"hostNetwork", "hostPID", "hostIPC", "privileged", "allowPrivilegeEscalation",
      "runAsNonRoot", "capabilities", "hostPath">>

\* the pod spec in which only one risk factor is left
FactorAlone(pod_spec, factor) ==
    IF factor \in HostFlags THEN RestrictKeys(pod_spec, {factor})
    ELSE IF factor = "hostPath" THEN RestrictKeys(pod_spec, {"volumes"})
    ELSE LET keep == {"containers", "initContainers"}
                     \cup (IF factor = "runAsNonRoot" THEN {"securityContext"} ELSE {})
         IN [k \in DOMAIN pod_spec \cap keep |->
                IF k = "securityContext"
                THEN RestrictKeys(pod_spec[k], {"runAsNonRoot"})
                ELSE ProjectContainers(pod_spec[k], factor)]

\* the resource is of a monitored kind and has a pod spec in its place
HasPodSpec(res) ==
    /\ Get(res, "kind", "Unknown") \in
          {"Pod", "Deployment", "StatefulSet", "DaemonSet", "Job", "CronJob", "ReplicaSet"}
    /\ "spec" \in DOMAIN res
    /\ res.kind # "Pod" =>
          "template" \in DOMAIN res.spec /\ "spec" \in DOMAIN res.spec.template

PodSpecOf(res) ==
    IF res.kind = "Pod" THEN res.spec ELSE res.spec.template.spec

WithPodSpec(res, pod_spec) ==
    IF res.kind = "Pod" THEN [res EXCEPT !.spec = pod_spec]
    ELSE [res EXCEPT !.spec.template.spec = pod_spec]

RECURSIVE FactorSum(_, _)
\* the findings of the resource reduced to each risk factor in turn, summed
FactorSum(res, i) ==
    IF i > Len(RiskFactors) THEN EmptyBag
    ELSE BagOfSeq(CheckResource(WithPodSpec(res, FactorAlone(PodSpecOf(res), RiskFactors[i])),
                                "apps/test").findings)
         (+) FactorSum(res, i + 1)

MultiIssuePod ==
    PodResource(
        [hostNetwork |-> TRUE, hostPID |-> TRUE,
         containers |-> <<[name |-> "container1", image |-> "nginx",
                           securityContext |->
                               [privileged |-> TRUE,
                                capabilities |-> [add |-> <<"SYS_ADMIN", "NET_ADMIN">>]]]>>,
         volumes |-> <<[name |-> "host-vol", hostPath |-> [path |-> "/var/run"]]>>])

\* C4: the rules of check_resource are independent: the multiset of findings
\* of a monitored resource with several risk factors is the sum of the
\* findings each factor gives when it is the only one present; the pod with
\* hostNetwork, hostPID, one privileged container adding SYS_ADMIN and
\* NET_ADMIN and one hostPath volume gives exactly 6 findings.
RulesIndependent ==
    pcRule = "done" /\ HasPodSpec(argResource) =>
        /\ BagOfSeq(findings) = FactorSum(argResource, 1)
        /\ argResource = MultiIssuePod => Len(findings) = 6

\* C4 witness: check_resource has run on the six-finding pod
MultiIssueChecked ==
    pcRule = "done" /\ argResource = MultiIssuePod /\ Len(findings) = 6

\* the kinds the rule evaluator is specified to monitor
PodBearingKinds ==
    {"Pod", "Deployment", "StatefulSet", "DaemonSet", "Job", "CronJob", "ReplicaSet"}

KindOf(res) == Get(res, "kind", "Unknown")

\* the pod spec that is to be evaluated: spec for a Pod, spec.template.spec
\* for a controller; empty where a level is absent
SpecifiedPodSpec(res) ==
    LET spec == Get(res, "spec", EmptyDict)
    IN IF KindOf(res) = "Pod" THEN spec
       ELSE Get(Get(spec, "template", EmptyDict), "spec", EmptyDict)

\* the containers and the init containers of the pod spec
SpecifiedContainers(res) ==
    Get(SpecifiedPodSpec(res), "containers", <<>>)
    \o Get(SpecifiedPodSpec(res), "initContainers", <<>>)

NameOfResource(res) == Get(Get(res, "metadata", EmptyDict), "name", "unknown")

\* the name a finding of the container carries
NameOfContainer(res, container) ==
    NameOfResource(res) \o "/" \o Get(container, "name", "unknown")

ContainerNames(res) ==
    {NameOfContainer(res, SpecifiedContainers(res)[i]) :
        i \in 1..Len(SpecifiedContainers(res))}

\* the positions of the findings of one check, and of one check and name
Hits(chk) == {i \in 1..Len(findings) : findings[i].check = chk}

HitsNamed(chk, rname) == {i \in Hits(chk) : findings[i].resource_name = rname}

Checked == pcRule = "done" /\ KindOf(argResource) \in PodBearingKinds

\* C15: check_resource appends nothing for a resource whose kind is not
\* monitored (or absent), whatever its spec holds; for a monitored controller
\* it appends what it appends for a Pod whose spec is the controller's
\* spec.template.spec, settings elsewhere in the spec being ignored.
UnmonitoredKindsUntouched ==
    pcRule \in {"done", "raised"} =>
        /\ KindOf(argResource) \notin PodBearingKinds => findings = <<>>
        /\ KindOf(argResource) \in PodBearingKinds \ {"Pod"} =>
              [i \in 1..Len(findings) |-> [findings[i] EXCEPT !.resource_kind = "Pod"]]
                 = CheckResource([kind |-> "Pod",
                                  metadata |-> Get(argResource, "metadata", EmptyDict),
                                  spec |-> SpecifiedPodSpec(argResource)],
                                 "apps/test").findings

\* C15 witness: a Service with host flags, a privileged container and a
\* hostPath volume in its spec was checked
RiskyServiceChecked ==
    /\ pcRule = "done"
    /\ KindOf(argResource) = "Service"
    /\ Get(argResource, "spec", EmptyDict) = RiskyPodSpec
    /\ findings = <<>>

\* C16: for a monitored resource each host flag that is present and true
\* gives exactly one finding, severity high for hostNetwork and hostPID and
\* medium for hostIPC, named by the resource alone; a flag that is absent or
\* false gives none; a Pod with hostNetwork true and nothing else gives
\* exactly one finding.
HostFlagsFlagged ==
    Checked =>
        /\ \A flag \in {"hostNetwork", "hostPID", "hostIPC"} :
              /\ Cardinality(Hits(flag))
                    = (IF Get(SpecifiedPodSpec(argResource), flag, FALSE) THEN 1 ELSE 0)
              /\ \A i \in Hits(flag) :
                    /\ findings[i].severity = (IF flag = "hostIPC" THEN "medium" ELSE "high")
                    /\ findings[i].resource_name = NameOfResource(argResource)
        /\ argResource = PodResource([hostNetwork |-> TRUE]) =>
              /\ Len(findings) = 1
              /\ findings[1].check = "hostNetwork"
              /\ findings[1].severity = "high"

\* C16 witness: a Pod with hostNetwork false, hostPID false and hostIPC true
\* gave the one medium hostIPC finding
HostIPCOnlyFlagged ==
    /\ pcRule = "done"
    /\ KindOf(argResource) = "Pod"
    /\ Get(SpecifiedPodSpec(argResource), "hostNetwork", TRUE) = FALSE
    /\ Get(SpecifiedPodSpec(argResource), "hostPID", TRUE) = FALSE
    /\ Len(findings) = 1
    /\ findings[1].check = "hostIPC" /\ findings[1].severity = "medium"

\* securityContext.capabilities.add of a container, [] where a level is absent
AddedCapabilities(container) ==
    Get(Get(Get(container, "securityContext", EmptyDict), "capabilities", EmptyDict),
        "add", <<>>)

\* the dangerous set as specified
DangerousSet ==
    {"SYS_ADMIN", "NET_ADMIN", "SYS_MODULE", "SYS_RAWIO", "SYS_PTRACE", "DAC_OVERRIDE"}

\* the entries of add lists, as <<container position, entry position>>, of
\* the containers that carry the name
AddedEntries(res, rname) ==
    UNION {{<<i, j>> : j \in 1..Len(AddedCapabilities(SpecifiedContainers(res)[i]))} :
              i \in {k \in 1..Len(SpecifiedContainers(res)) :
                        NameOfContainer(res, SpecifiedContainers(res)[k]) = rname}}

EntryAt(res, pos) == AddedCapabilities(SpecifiedContainers(res)[pos[1]])[pos[2]]

\* C17: the dangerousCapability findings of a container are as many as the
\* entries of its securityContext.capabilities.add that are in the dangerous
\* set, one high finding per entry that names the capability; other entries,
\* a missing add list and dropped capabilities give none.
DangerousCapabilitiesCounted ==
    Checked =>
        /\ \A i \in Hits("dangerousCapability") :
              /\ findings[i].severity = "high"
              /\ findings[i].resource_name \in ContainerNames(argResource)
        /\ \A rname \in ContainerNames(argResource) :
              /\ Cardinality(HitsNamed("dangerousCapability", rname))
                    = Cardinality({pos \in AddedEntries(argResource, rname) :
                                      EntryAt(argResource, pos) \in DangerousSet})
              /\ \A cap \in DangerousSet :
                    Cardinality({i \in HitsNamed("dangerousCapability", rname) :
                                    findings[i].details
                                       = "Container adds dangerous capability: " \o cap})
                       = Cardinality({pos \in AddedEntries(argResource, rname) :
                                         EntryAt(argResource, pos) = cap})

\* C17 witness: one container adding SYS_ADMIN and NET_ADMIN gave two
\* dangerousCapability findings
TwoCapabilitiesFlagged ==
    /\ pcRule = "done"
    /\ Len(SpecifiedContainers(argResource)) = 1
    /\ AddedCapabilities(SpecifiedContainers(argResource)[1]) = <<"SYS_ADMIN", "NET_ADMIN">>
    /\ Cardinality(Hits("dangerousCapability")) = 2

\* the containers of the resource that carry the name and satisfy the test
NamedContainers(res, rname, Test(_)) ==
    {i \in 1..Len(SpecifiedContainers(res)) :
        /\ NameOfContainer(res, SpecifiedContainers(res)[i]) = rname
        /\ Test(SpecifiedContainers(res)[i])}

\* allowPrivilegeEscalation is written in the container's securityContext
\* and is true
EscalationExplicit(container) ==
    /\ "securityContext" \in DOMAIN container
    /\ "allowPrivilegeEscalation" \in DOMAIN container.securityContext
    /\ container.securityContext.allowPrivilegeEscalation = TRUE

\* C18: a container gives one medium allowPrivilegeEscalation finding iff
\* the key is present in its securityContext and true; no securityContext,
\* an absent key or false give none.
EscalationOnlyWhenExplicit ==
    Checked =>
        /\ \A i \in Hits("allowPrivilegeEscalation") :
              /\ findings[i].severity = "medium"
              /\ findings[i].resource_name \in ContainerNames(argResource)
        /\ \A rname \in ContainerNames(argResource) :
              Cardinality(HitsNamed("allowPrivilegeEscalation", rname))
                 = Cardinality(NamedContainers(argResource, rname, EscalationExplicit))

\* C18 witness: of a container with securityContext but no
\* allowPrivilegeEscalation key and a container with the key true, only the
\* second was flagged
EscalationKeyAbsentUnflagged ==
    /\ pcRule = "done"
    /\ Len(SpecifiedContainers(argResource)) = 2
    /\ "securityContext" \in DOMAIN SpecifiedContainers(argResource)[1]
    /\ "allowPrivilegeEscalation" \notin
          DOMAIN SpecifiedContainers(argResource)[1].securityContext
    /\ EscalationExplicit(SpecifiedContainers(argResource)[2])
    /\ Cardinality(Hits("allowPrivilegeEscalation")) = 1

\* the effective runAsNonRoot of the container in the resource is false
RunsAsRoot(res, container) ==
    LET own == Get(container, "securityContext", EmptyDict)
        pod == Get(SpecifiedPodSpec(res), "securityContext", EmptyDict)
    IN IF "runAsNonRoot" \in DOMAIN own THEN own.runAsNonRoot = FALSE
       ELSE "runAsNonRoot" \in DOMAIN pod /\ pod.runAsNonRoot = FALSE

\* C19: a container gives one medium runAsRoot finding iff its effective
\* runAsNonRoot, the container's value when set and the pod's otherwise, is
\* false.
RunAsRootByEffectiveValue ==
    Checked =>
        /\ \A i \in Hits("runAsRoot") :
              /\ findings[i].severity = "medium"
              /\ findings[i].resource_name \in ContainerNames(argResource)
        /\ \A rname \in ContainerNames(argResource) :
              Cardinality(HitsNamed("runAsRoot", rname))
                 = Cardinality({i \in 1..Len(SpecifiedContainers(argResource)) :
                       /\ NameOfContainer(argResource, SpecifiedContainers(argResource)[i])
                             = rname
                       /\ RunsAsRoot(argResource, SpecifiedContainers(argResource)[i])})

\* C19 witness: under a pod-level runAsNonRoot false, a container that sets
\* true was not flagged and a container that sets nothing was
ContainerOverridesPod ==
    /\ pcRule = "done"
    /\ Get(Get(SpecifiedPodSpec(argResource), "securityContext", EmptyDict),
           "runAsNonRoot", TRUE) = FALSE
    /\ Len(SpecifiedContainers(argResource)) = 2
    /\ Get(Get(SpecifiedContainers(argResource)[1], "securityContext", EmptyDict),
           "runAsNonRoot", FALSE) = TRUE
    /\ "securityContext" \notin DOMAIN SpecifiedContainers(argResource)[2]
    /\ Cardinality(Hits("runAsRoot")) = 1

RemoveAt(seq, i) == SubSeq(seq, 1, i - 1) \o SubSeq(seq, i + 1, Len(seq))

\* the pod spec with the i-th entry of one container list moved to the end
\* of the other
MoveContainer(pod_spec, from, to, i) ==
    [k \in DOMAIN pod_spec \cup {from, to} |->
        IF k = from THEN RemoveAt(pod_spec[from], i)
        ELSE IF k = to THEN Append(Get(pod_spec, to, <<>>), pod_spec[from][i])
        ELSE pod_spec[k]]

\* the multiset of findings check_resource gives for the resource
FindingsBag(res) == BagOfSeq(CheckResource(res, "apps/test").findings)

\* C20: moving any container of the pod spec from containers to
\* initContainers, or back, leaves the multiset of findings unchanged, and
\* every container-level finding is named <resource>/<container>.
InitContainersAlike ==
    Checked /\ HasPodSpec(argResource) =>
        LET pod_spec == PodSpecOf(argResource)
        IN /\ \A i \in 1..Len(Get(pod_spec, "containers", <<>>)) :
                 FindingsBag(WithPodSpec(argResource,
                                 MoveContainer(pod_spec, "containers", "initContainers", i)))
                    = BagOfSeq(findings)
           /\ \A i \in 1..Len(Get(pod_spec, "initContainers", <<>>)) :
                 FindingsBag(WithPodSpec(argResource,
                                 MoveContainer(pod_spec, "initContainers", "containers", i)))
                    = BagOfSeq(findings)
           /\ \A i \in 1..Len(findings) :
                 findings[i].check \in {"privileged", "allowPrivilegeEscalation",
                                        "runAsRoot", "dangerousCapability"}
                    => findings[i].resource_name \in ContainerNames(argResource)

\* C20 witness: a pod spec with init containers only, one of them
\* privileged, gave the privileged finding under the container's name
InitContainerFlagged ==
    /\ pcRule = "done"
    /\ HasPodSpec(argResource)
    /\ "containers" \notin DOMAIN PodSpecOf(argResource)
    /\ Len(Get(PodSpecOf(argResource), "initContainers", <<>>)) = 1
    /\ \E i \in Hits("privileged") :
          findings[i].resource_name = "multi-issue-pod/container1"

\* the volumes of the pod spec, and the positions of those with a hostPath
SpecifiedVolumes(res) == Get(SpecifiedPodSpec(res), "volumes", <<>>)

HostPathVolumes(res) ==
    {i \in 1..Len(SpecifiedVolumes(res)) : "hostPath" \in DOMAIN SpecifiedVolumes(res)[i]}

IsHostPathFinding(f) == f.check = "hostPath"

\* the resource with nothing but the volumes left in its pod spec
VolumesOnly(res) == WithPodSpec(res, RestrictKeys(PodSpecOf(res), {"volumes"}))

\* C21: a monitored resource gives exactly one high hostPath finding, named
\* by the resource, for each volume of its pod spec that has a hostPath entry,
\* and none for other volumes; the hostPath findings are those of the same
\* resource with its containers and every other setting removed.
HostPathPerVolume ==
    Checked =>
        /\ Cardinality(Hits("hostPath")) = Cardinality(HostPathVolumes(argResource))
        /\ \A i \in Hits("hostPath") :
              /\ findings[i].severity = "high"
              /\ findings[i].resource_name = NameOfResource(argResource)
        /\ \A i \in HostPathVolumes(argResource) :
              \E j \in Hits("hostPath") :
                 findings[j].details
                    = "Pod mounts host path: "
                         \o Get(SpecifiedVolumes(argResource)[i].hostPath, "path", "unknown")
        /\ HasPodSpec(argResource) =>
              SelectSeq(findings, IsHostPathFinding)
                 = CheckResource(VolumesOnly(argResource), "apps/test").findings

\* C21 witness: a Pod with no container and two hostPath volumes gave two
\* hostPath findings
TwoHostPathsNoContainer ==
    /\ pcRule = "done"
    /\ KindOf(argResource) = "Pod"
    /\ SpecifiedContainers(argResource) = <<>>
    /\ Cardinality(HostPathVolumes(argResource)) = 2
    /\ Cardinality(Hits("hostPath")) = 2

\* a key of the resource that check_resource reads a dict from holds null
NullValued(res) ==
    \/ IsNone(Get(res, "metadata", EmptyDict))
    \/ IsNone(Get(res, "spec", EmptyDict))
    \/ IsNone(Get(Get(res, "spec", EmptyDict), "template", EmptyDict))

\* the pod spec holds containers and nothing else, none with a
\* securityContext
BareContainers(res) ==
    /\ DOMAIN SpecifiedPodSpec(res) = {"containers"}
    /\ SpecifiedContainers(res) # <<>>
    /\ \A i \in 1..Len(SpecifiedContainers(res)) :
          "securityContext" \notin DOMAIN SpecifiedContainers(res)[i]

\* name and namespace as specified: unknown and default when left out
SpecifiedName(res) ==
    IF "metadata" \in DOMAIN res /\ "name" \in DOMAIN res.metadata
    THEN res.metadata.name ELSE "unknown"

SpecifiedNamespace(res) ==
    IF "metadata" \in DOMAIN res /\ "namespace" \in DOMAIN res.metadata
    THEN res.metadata.namespace ELSE "default"

\* C22: check_resource raises for no resource whose optional fields are
\* merely absent; every finding carries the name unknown and the namespace
\* default where the resource gives none; a pod with containers and no
\* securityContext gives no finding.
MissingFieldsDefaulted ==
    pcRule \in {"done", "raised"} /\ ~NullValued(argResource) =>
        /\ pcRule = "done"
        /\ \A i \in 1..Len(findings) :
              /\ findings[i].namespace = SpecifiedNamespace(argResource)
              /\ findings[i].resource_name \in
                    {SpecifiedName(argResource)}
                    \cup {SpecifiedName(argResource) \o "/"
                             \o (IF "name" \in DOMAIN SpecifiedContainers(argResource)[k]
                                 THEN SpecifiedContainers(argResource)[k].name
                                 ELSE "unknown") :
                             k \in 1..Len(SpecifiedContainers(argResource))}
        /\ BareContainers(argResource) => findings = <<>>

\* C22 witness: a Pod without metadata, on the host network, with an unnamed
\* privileged container was checked to the end and its findings carry the
\* defaults
DefaultsInFindings ==
    /\ pcRule = "done"
    /\ "metadata" \notin DOMAIN argResource
    /\ Len(findings) = 2
    /\ findings[1].resource_name = "unknown" /\ findings[1].namespace = "default"
    /\ findings[2].resource_name = "unknown/unknown"

----------------------------------------------------------------------------
(* A single call of parse_manifests *)

\* documents per manifest text
MaxDocs == 3

ConfigMapResource ==
    [kind |-> "ConfigMap", metadata |-> [name |-> "settings"], data |-> [key |-> "value"]]

DocChoices ==
    {MappingDoc(PodMedium), MappingDoc(ConfigMapResource), MappingDoc(EmptyDict),
     ScalarDoc, SequenceDoc, EmptyDoc, MalformedDoc}

ManifestTexts == UNION {[1..n -> DocChoices] : n \in 0..MaxDocs}

InitParse ==
    /\ ProcIdle /\ PipeIdle
    /\ RuleIdle /\ DiffIdle /\ MapIdle
    /\ argManifestYaml \in ManifestTexts
    /\ retResources = <<>>
    /\ pcParse = "start"

\* resources = checker.parse_manifests(manifest_yaml); only yaml.YAMLError
\* can arise in the loop and it is caught
ParseManifestsCall ==
    /\ pcParse = "start"
    /\ retResources' = ParseManifests(argManifestYaml)
    /\ pcParse' = "done"
    /\ UNCHANGED <<scanVars, validatorVars, ruleVars, argManifestYaml, diffVars, mapVars,
                   pipeVars>>

SpecParse == InitParse /\ [][ParseManifestsCall]_vars

HasMalformedPart(text) == \E i \in 1..Len(text) : text[i].form = "malformed"

\* C5: for every manifest text that cannot be parsed as YAML, also one whose
\* malformed part follows well-formed documents, parse_manifests raises
\* nothing and returns zero resources.
MalformedYieldsNothing ==
    /\ pcParse # "raised"
    /\ pcParse = "done" /\ HasMalformedPart(argManifestYaml) => retResources = <<>>

----------------------------------------------------------------------------
(* A single call of build_and_check_kustomization on a fresh checker *)

\* the documents of a rendered text
BuildDocs ==
    {MappingDoc(PodMedium), MappingDoc(PodRisky), MappingDoc(NullMetadata),
     EmptyDoc, MalformedDoc}

BuildTexts == UNION {[1..n -> BuildDocs] : n \in 0..MaxDocs}

\* what the render command can do: exit 0 or nonzero having printed any
\* text, run into the timeout having printed any text, or not start at all
CallOutcomes ==
    {[kind |-> k, stdout |-> t] : k \in {"ok", "nonzero", "timeout"}, t \in BuildTexts}
    \cup {BuildOSError}

InitBuild ==
    /\ script = "none"
    /\ \E outcome \in CallOutcomes :
          /\ buildOut = [d \in {"apps/test"} |-> outcome]
          /\ toolInstalled = (outcome # BuildOSError)
    /\ failOnHigh = FALSE
    /\ jsonArg = FALSE
    /\ kustomizations = {"apps/test"}
    /\ pcMain = "idle"
    /\ task = [d \in kustomizations |-> [QueuedTask EXCEPT !.st = "building"]]
    /\ findings = <<>>
    /\ buildCalls = [d \in kustomizations |-> 0]
    /\ collected = {}
    /\ failedDirs = {}
    /\ numFindings = 0
    /\ printed = <<>>
    /\ jsonReport = EmptyDict
    /\ exitCode = -1
    /\ ValidatorIdle
    /\ PureIdle

\* checker.build_and_check_kustomization(Path("apps/test")), run to its end
NextBuild ==
    \E d \in kustomizations : TaskBuild(d) \/ TaskAppend(d) \/ TaskFinish(d)

SpecBuild == InitBuild /\ [][NextBuild]_vars

\* the call of build_and_check_kustomization on the directory has ended
CallEnded(d) ==
    task[d].st \in {"done", "raised"} /\ task[d].n = Len(task[d].trace)

\* what the call does when handed the text as the build's result
OnText(text, d) ==
    LET checked == CheckResources(ParseManifests(text), d)
    IN [findings |-> IF text = <<>> THEN <<>> ELSE checked.findings,
        raised |-> text # <<>> /\ checked.raised,
        ret |-> IF text = <<>> THEN 0 ELSE Len(ParseManifests(text))]

\* C23: build_manifests hands on the rendered text exactly when the command
\* exits 0 and the empty text on a nonzero exit, a timeout and any other
\* exception, whatever was printed; it never raises, so on a failed build
\* build_and_check_kustomization returns 0 and no finding of the directory
\* is ever appended.
BuildFailureGivesEmpty ==
    \A d \in kustomizations :
        /\ BuildFailed(d) =>
              /\ task[d].st \in {"queued", "building", "done"}
              /\ FromDir(findings, d) = <<>>
              /\ task[d].st = "done" => task[d].ret = 0 /\ task[d].trace = <<>>
        /\ ~BuildFailed(d) /\ CallEnded(d) =>
              LET run == OnText(buildOut[d].stdout, d)
              IN /\ FromDir(findings, d) = run.findings
                 /\ (task[d].st = "raised") = run.raised
                 /\ task[d].st = "done" => task[d].ret = run.ret

\* C23 witness: a build that exited nonzero after printing a manifest with
\* findings ended with 0 and an empty findings list
FailedBuildWithOutput ==
    \E d \in kustomizations :
        /\ buildOut[d].kind = "nonzero"
        /\ CheckResources(ParseManifests(buildOut[d].stdout), d).findings # <<>>
        /\ task[d].st = "done" /\ task[d].ret = 0
        /\ findings = <<>>

----------------------------------------------------------------------------
(* Change-set resolver: generate_pipeline.get_changed_files and            *)
(* PrivilegeChecker.get_changed_files                                      *)

\* lines per git output
MaxLines == 1

ZeroSha == "0000000000000000000000000000000000000000"

MergeRequestEvent == "merge_request_event"

\* os.getenv(name, default)
Getenv(e, name, default) == Get(e, name, default)

\* a line of output is a sequence of tokens; " " is white space
RECURSIVE LStrip(_)
LStrip(line) ==
    IF line # <<>> /\ Head(line) = " " THEN LStrip(Tail(line)) ELSE line

RECURSIVE RStrip(_)
RStrip(line) ==
    IF line # <<>> /\ line[Len(line)] = " "
    THEN RStrip(SubSeq(line, 1, Len(line) - 1))
    ELSE line

\* f.strip()
Strip(line) == RStrip(LStrip(line))

RECURSIVE StripLines(_)
\* [f.strip() for f in result.stdout.split("\n") if f.strip()]
StripLines(lines) ==
    IF lines = <<>> THEN <<>>
    ELSE IF Strip(Head(lines)) # <<>>
         THEN <<Strip(Head(lines))>> \o StripLines(Tail(lines))
         ELSE StripLines(Tail(lines))

GitOk(stdout) == [kind |-> "ok", stdout |-> stdout]
\* subprocess.TimeoutExpired
GitTimeout == [kind |-> "timeout", stdout |-> <<>>]
\* subprocess.CalledProcessError (check=True and a nonzero exit)
GitNonzero == [kind |-> "nonzero", stdout |-> <<>>]

OutputLines ==
    {<<"apps/test/kustomization.yaml">>, <<" ", "infrastructure/test/values.yaml", " ">>,
     <<>>}

GitStdouts == UNION {[1..n -> OutputLines] : n \in 1..MaxLines}

GitOutcomes == {GitTimeout, GitNonzero} \cup {GitOk(out) : out \in GitStdouts}

FetchCommand(e) ==
    <<"git", "fetch", "origin", Getenv(e, "CI_MERGE_REQUEST_TARGET_BRANCH_NAME", "main")>>

MergeRequestDiffCommand(e) ==
    <<"git", "diff", "--name-only",
      "origin/" \o Getenv(e, "CI_MERGE_REQUEST_TARGET_BRANCH_NAME", "main") \o "...HEAD">>

PushDiffCommand(e) ==
    <<"git", "diff", "--name-only", Getenv(e, "CI_COMMIT_BEFORE_SHA", ""),
      Getenv(e, "CI_COMMIT_SHA", "")>>

FallbackDiffCommand == <<"git", "diff", "--name-only", "HEAD~1", "HEAD">>

\* a resolver that looks at the base revision before the pipeline source
StrategyBaseFirst(e) ==
    LET before_sha == Getenv(e, "CI_COMMIT_BEFORE_SHA", "")
    IN IF before_sha # "" /\ before_sha # ZeroSha THEN "push"
       ELSE IF Getenv(e, "CI_PIPELINE_SOURCE", "") = MergeRequestEvent THEN "merge_request"
       ELSE "fallback"

\* the if / elif / else of get_changed_files
Strategy(e) ==
    LET before_sha == Getenv(e, "CI_COMMIT_BEFORE_SHA", "")
    IN IF Getenv(e, "CI_PIPELINE_SOURCE", "") = MergeRequestEvent THEN "merge_request"
       ELSE IF before_sha # "" /\ before_sha # ZeroSha THEN "push"
       ELSE "fallback"

\* a resolver whose except clause names CalledProcessError only
CatchGitFailureNoTimeout(kind) == IF kind = "timeout" THEN "raised" ELSE "returned"

\* except (subprocess.TimeoutExpired, subprocess.CalledProcessError): return []
CatchGitFailure(kind) == "returned"

EnvChoices ==
    {Merge(Merge(src, before), Merge(sha, branch)) :
        src \in {EmptyDict, [CI_PIPELINE_SOURCE |-> MergeRequestEvent],
                 [CI_PIPELINE_SOURCE |-> "push"]},
        before \in {EmptyDict, [CI_COMMIT_BEFORE_SHA |-> ""],
                    [CI_COMMIT_BEFORE_SHA |-> ZeroSha],
                    [CI_COMMIT_BEFORE_SHA |-> "abc123"]},
        sha \in {EmptyDict, [CI_COMMIT_SHA |-> "def456"]},
        branch \in {EmptyDict, [CI_MERGE_REQUEST_TARGET_BRANCH_NAME |-> "develop"]}}

InitDiff ==
    /\ ProcIdle /\ PipeIdle
    /\ RuleIdle /\ ParseIdle /\ MapIdle
    /\ resolver \in {"generate_pipeline", "check_privileges"}
    /\ presetFiles \in (IF resolver = "check_privileges"
                        THEN {<<>>, <<"apps/app1/deployment.yaml">>} ELSE {<<>>})
    /\ env \in EnvChoices
    /\ gitOut \in [1..2 -> GitOutcomes]
    /\ gitCalls = <<>>
    /\ pcDiff = "start"
    /\ retChangedFiles = <<>>

\* get_changed_files up to the return of its first git invocation:
\* the preset list of the checker, else the fetch of the merge-request
\* strategy or the diff of the other two
GetChangedFilesFirst ==
    /\ pcDiff = "start"
    /\ IF resolver = "check_privileges" /\ presetFiles # <<>>
       THEN /\ retChangedFiles' = presetFiles
            /\ pcDiff' = "returned"
            /\ gitCalls' = gitCalls
       ELSE LET strategy == Strategy(env)
                out == gitOut[1]
            IN /\ gitCalls' = Append(gitCalls,
                                 CASE strategy = "merge_request" -> FetchCommand(env)
                                   [] strategy = "push" -> PushDiffCommand(env)
                                   [] OTHER -> FallbackDiffCommand)
               /\ IF out.kind # "ok"
                  THEN pcDiff' = CatchGitFailure(out.kind) /\ retChangedFiles' = <<>>
                  ELSE IF strategy = "merge_request"
                       THEN pcDiff' = "fetched" /\ retChangedFiles' = retChangedFiles
                       ELSE pcDiff' = "returned"
                            /\ retChangedFiles' = StripLines(out.stdout)
    /\ UNCHANGED <<scanVars, validatorVars, ruleVars, parseVars, mapVars, pipeVars>>
    /\ UNCHANGED <<resolver, presetFiles, env, gitOut>>

\* the diff against the fetched target branch and the return
GetChangedFilesDiff ==
    /\ pcDiff = "fetched"
    /\ gitCalls' = Append(gitCalls, MergeRequestDiffCommand(env))
    /\ IF gitOut[2].kind # "ok"
       THEN pcDiff' = CatchGitFailure(gitOut[2].kind) /\ retChangedFiles' = <<>>
       ELSE pcDiff' = "returned" /\ retChangedFiles' = StripLines(gitOut[2].stdout)
    /\ UNCHANGED <<scanVars, validatorVars, ruleVars, parseVars, mapVars, pipeVars>>
    /\ UNCHANGED <<resolver, presetFiles, env, gitOut>>

NextDiff == GetChangedFilesFirst \/ GetChangedFilesDiff

SpecDiff == InitDiff /\ [][NextDiff]_vars

----------------------------------------------------------------------------
(* Properties of the change-set resolver *)

GitFailed(i) == i <= Len(gitCalls) /\ gitOut[i].kind # "ok"

StrategyCommands(strategy) ==
    CASE strategy = "merge_request" -> {FetchCommand(env), MergeRequestDiffCommand(env)}
      [] strategy = "push" -> {PushDiffCommand(env)}
      [] OTHER -> {FallbackDiffCommand}

\* C8: in both resolvers, when a git invocation of the selected strategy (the
\* fetch included) times out or exits nonzero, the function raises nothing,
\* returns the empty list, and runs no further git command: the failed
\* invocation is the last one and every command run is one of a single
\* strategy.
GitFailureDegrades ==
    /\ pcDiff # "raised"
    /\ \A i \in 1..2 : GitFailed(i) =>
          /\ pcDiff = "returned"
          /\ retChangedFiles = <<>>
          /\ Len(gitCalls) = i
          /\ \E strategy \in {"merge_request", "push", "fallback"} :
                Range(gitCalls) \subseteq StrategyCommands(strategy)

\* C8 witness: the fetch of the merge-request strategy timed out
FetchTimedOut ==
    /\ pcDiff = "returned"
    /\ Len(gitCalls) = 1
    /\ gitCalls[1][2] = "fetch"
    /\ gitOut[1].kind = "timeout"
    /\ retChangedFiles = <<>>

\* the commands the precedence rule prescribes for the trigger values: the
\* first one, and the sequence when every invocation succeeds
PrescribedCommands ==
    LET source == IF "CI_PIPELINE_SOURCE" \in DOMAIN env
                  THEN env["CI_PIPELINE_SOURCE"] ELSE ""
        base == IF "CI_COMMIT_BEFORE_SHA" \in DOMAIN env
                THEN env["CI_COMMIT_BEFORE_SHA"] ELSE ""
        head == IF "CI_COMMIT_SHA" \in DOMAIN env THEN env["CI_COMMIT_SHA"] ELSE ""
        target == IF "CI_MERGE_REQUEST_TARGET_BRANCH_NAME" \in DOMAIN env
                  THEN env["CI_MERGE_REQUEST_TARGET_BRANCH_NAME"] ELSE "main"
    IN IF source = "merge_request_event"
       THEN <<<<"git", "fetch", "origin", target>>,
              <<"git", "diff", "--name-only", "origin/" \o target \o "...HEAD">>>>
       ELSE IF base \notin {"", ZeroSha}
       THEN <<<<"git", "diff", "--name-only", base, head>>>>
       ELSE <<<<"git", "diff", "--name-only", "HEAD~1", "HEAD">>>>

\* the commands run are the prescribed ones, up to the first that fails
RanPrescribed ==
    /\ Len(gitCalls) >= 1
    /\ Len(gitCalls) <= Len(PrescribedCommands)
    /\ \A i \in 1..Len(gitCalls) : gitCalls[i] = PrescribedCommands[i]
    /\ Len(gitCalls) < Len(PrescribedCommands) => GitFailed(Len(gitCalls))

\* C9 as stated: for every combination of trigger values each resolver picks
\* exactly one strategy by precedence: merge-request (fetch, then
\* origin/<target>...HEAD) when CI_PIPELINE_SOURCE is merge_request_event,
\* else base..head when the base revision is non-empty and not all zeros,
\* else HEAD~1..HEAD.
StrategyForEveryTrigger ==
    pcDiff = "returned" => RanPrescribed

PresetGiven == resolver = "check_privileges" /\ presetFiles # <<>>

\* C9 amended: the precedence holds whenever the resolver consults git, which
\* PrivilegeChecker.get_changed_files does only when it was constructed
\* without a non-empty changed_files list; with one it returns that list and
\* runs no git command.
StrategyByPrecedence ==
    pcDiff = "returned" =>
        IF PresetGiven
        THEN gitCalls = <<>> /\ retChangedFiles = presetFiles
        ELSE RanPrescribed

\* C9 witness: a merge-request pipeline with a valid base revision also set
\* ran the fetch and the merge-request diff
MergeRequestWonOverBase ==
    /\ pcDiff = "returned"
    /\ Getenv(env, "CI_PIPELINE_SOURCE", "") = MergeRequestEvent
    /\ Getenv(env, "CI_COMMIT_BEFORE_SHA", "") = "abc123"
    /\ Len(gitCalls) = 2
    /\ gitCalls[2] = MergeRequestDiffCommand(env)
    /\ retChangedFiles # <<>>

----------------------------------------------------------------------------
(* Manifest-directory mapper: generate_pipeline.get_affected_manifests *)

\* directory levels below the repository root
MaxDepth == 3

\* entries of the changed_files list
MaxChanged == 2

SCAN_DIRECTORIES == {"apps", "infrastructure", "argocd"}

\* a path is the sequence of its parts; Path(".") is <<>>
SubDirNames == <<"parent", "child", "leaf", "deep">>

\* the directory n levels deep under a top-level directory
ChainDir(top, n) == <<top>> \o SubSeq(SubDirNames, 1, n - 1)

\* the apps tree to its full depth, and docs
RepoDirs ==
    {ChainDir("apps", n) : n \in 1..MaxDepth} \cup {ChainDir("docs", 1)}

\* changed paths as git prints them, split at "/": a file in each directory,
\* two entries of the repository root, and one path written with "./"
ChangedPaths ==
    {dir \o <<"deployment.yaml">> : dir \in RepoDirs}
    \cup {<<"README.md">>, <<"apps">>, <<".", "apps", "parent", "deployment.yaml">>}

RECURSIVE PathParts(_)
\* Path(file_path).parts: "." and empty components are dropped
PathParts(components) ==
    IF components = <<>> THEN <<>>
    ELSE IF Head(components) \in {".", ""} THEN PathParts(Tail(components))
    ELSE <<Head(components)>> \o PathParts(Tail(components))

RECURSIVE PathStr(_)
\* str(path)
PathStr(path) ==
    IF path = <<>> THEN "."
    ELSE IF Len(path) = 1 THEN path[1]
    ELSE PathStr(SubSeq(path, 1, Len(path) - 1)) \o "/" \o path[Len(path)]

\* path.parent; Path(".") and the root "/" are their own parents
Parent(path) ==
    IF path = <<>> \/ path = <<"/">> THEN path ELSE SubSeq(path, 1, Len(path) - 1)

\* an ancestor walk that starts at the top-level directory
ParentsRootFirst(path) == [i \in 1..Len(path) |-> SubSeq(path, 1, i - 1)]

\* path.parents: the immediate parent first, Path(".") last
Parents(path) == [i \in 1..Len(path) |-> SubSeq(path, 1, Len(path) - i)]

\* (directory / "kustomization.yaml").exists()
HasKustomization(dir) == dir \in markers

NotFound == [found |-> FALSE, dir |-> <<>>]

RECURSIVE WalkUp(_)
\* `for parent in path.parents`: stop at Path("."), or at the first parent
\* that holds kustomization.yaml
WalkUp(parents) ==
    IF parents = <<>> THEN NotFound
    ELSE IF Head(parents) = <<>> THEN NotFound
    ELSE IF HasKustomization(Head(parents)) THEN [found |-> TRUE, dir |-> Head(parents)]
    ELSE WalkUp(Tail(parents))

\* a loop body that stores a fresh entry for the directory on every file
AddChangedFileOverwrite(affected, file_path) ==
    LET path == PathParts(file_path)
        kustomization_dir == WalkUp(Parents(path))
        manifest_dir == IF kustomization_dir.found THEN kustomization_dir.dir
                        ELSE Parent(path)
        fresh == [has_kustomization |-> kustomization_dir.found,
                  files |-> {PathStr(path)}]
    IN IF path = <<>> \/ path[1] \notin SCAN_DIRECTORIES THEN affected
       ELSE [d \in DOMAIN affected \cup {manifest_dir} |->
                IF d = manifest_dir THEN fresh ELSE affected[d]]

\* the body of `for file_path in changed_files` in get_affected_manifests
AddChangedFile(affected, file_path) ==
    LET path == PathParts(file_path)
        kustomization_dir == WalkUp(Parents(path))
        manifest_dir == IF kustomization_dir.found THEN kustomization_dir.dir
                        ELSE Parent(path)
        has_kustomization == kustomization_dir.found
        entry == IF manifest_dir \in DOMAIN affected THEN affected[manifest_dir]
                 ELSE [has_kustomization |-> has_kustomization, files |-> {}]
        updated == [has_kustomization |-> entry.has_kustomization \/ has_kustomization,
                    files |-> entry.files \cup {PathStr(path)}]
    IN IF path = <<>> \/ path[1] \notin SCAN_DIRECTORIES THEN affected
       ELSE [d \in DOMAIN affected \cup {manifest_dir} |->
                IF d = manifest_dir THEN updated ELSE affected[d]]

RECURSIVE AffectedLoop(_, _)
AffectedLoop(files, affected) ==
    IF files = <<>> THEN affected
    ELSE AffectedLoop(Tail(files), AddChangedFile(affected, Head(files)))

GetAffectedManifests(files) == AffectedLoop(files, EmptyDict)

\* path.is_relative_to(d) for a one-part directory d
IsRelativeTo(path, d) == path # <<>> /\ path[1] = d

\* a filter that accepts every path
InAnyDirectory(path, on_disk) == TRUE

\* any(path.is_relative_to(d) for d in self.SCAN_DIRECTORIES if Path(d).exists())
InExistingScanDirectory(path, on_disk) ==
    \E d \in SCAN_DIRECTORIES : d \in on_disk /\ IsRelativeTo(path, d)

RECURSIVE WalkUpFrom(_)
\* `while current != Path(".")`: the first directory, from the start upwards,
\* that holds kustomization.yaml
WalkUpFrom(from) ==
    IF from = <<>> THEN NotFound
    ELSE IF HasKustomization(from) THEN [found |-> TRUE, dir |-> from]
    ELSE WalkUpFrom(Parent(from))

\* a loop body whose walk starts at the changed path itself
AddKustomizationFromPath(affected, file_path, on_disk) ==
    LET path == PathParts(file_path)
        hit == WalkUpFrom(path)
    IN IF ~InExistingScanDirectory(path, on_disk) THEN affected
       ELSE IF hit.found THEN affected \cup {hit.dir} ELSE affected

\* the body of `for file_path in changed_files` in get_affected_kustomizations
AddKustomization(affected, file_path, on_disk) ==
    LET path == PathParts(file_path)
        hit == WalkUpFrom(Parent(path))
    IN IF ~InExistingScanDirectory(path, on_disk) THEN affected
       ELSE IF hit.found THEN affected \cup {hit.dir} ELSE affected

RECURSIVE KustomizationLoop(_, _, _)
KustomizationLoop(files, affected, on_disk) ==
    IF files = <<>> THEN affected
    ELSE KustomizationLoop(Tail(files), AddKustomization(affected, Head(files), on_disk),
                           on_disk)

GetAffectedKustomizations(files, on_disk) == KustomizationLoop(files, {}, on_disk)

\* the scan directories on disk: a directory that holds a marker exists
ScanDirChoices(marked) ==
    {on_disk \in {SCAN_DIRECTORIES, SCAN_DIRECTORIES \ {"apps"}} :
        \A m \in marked : m # <<>> /\ m[1] \in SCAN_DIRECTORIES => m[1] \in on_disk}

InitMap ==
    /\ ProcIdle /\ PipeIdle
    /\ RuleIdle /\ ParseIdle /\ DiffIdle
    /\ markers \in SUBSET (RepoDirs \cup {<<>>})
    /\ scanDirsOnDisk \in ScanDirChoices(markers)
    /\ argChangedFiles \in UNION {[1..n -> ChangedPaths] : n \in 1..MaxChanged}
    /\ retAffected = EmptyDict
    /\ pcMap = "start"
    /\ retKustomizations = {}
    /\ pcKust = "start"
    /\ pendingFiles = <<>> /\ current = <<>>

\* affected = get_affected_manifests(changed_files)
GetAffectedManifestsCall ==
    /\ pcMap = "start"
    /\ retAffected' = GetAffectedManifests(argChangedFiles)
    /\ pcMap' = "done"
    /\ UNCHANGED <<scanVars, validatorVars, ruleVars, parseVars, diffVars, pipeVars>>
    /\ UNCHANGED <<markers, argChangedFiles, scanDirsOnDisk, retKustomizations, pcKust,
                   pendingFiles, current>>

\* affected = checker.get_affected_kustomizations(changed_files)
GetAffectedKustomizationsCall ==
    /\ pcKust = "start"
    /\ retKustomizations' = GetAffectedKustomizations(argChangedFiles, scanDirsOnDisk)
    /\ pcKust' = "done"
    /\ UNCHANGED <<scanVars, validatorVars, ruleVars, parseVars, diffVars, pipeVars>>
    /\ UNCHANGED <<markers, argChangedFiles, scanDirsOnDisk, retAffected, pcMap,
                   pendingFiles, current>>

NextMap == GetAffectedManifestsCall \/ GetAffectedKustomizationsCall

SpecMap == InitMap /\ [][NextMap]_vars

----------------------------------------------------------------------------
(* Termination: check_all with more directories than workers, and the   *)
(* loops of get_affected_kustomizations step by step                      *)

\* one directory more than the pool has workers (MAX_WORKERS is 4)
PoolDirs == {DirList[i] : i \in 1..(4 + 1)}

\* every build times out; or the first directory's check raises after a
\* finding and the other builds fail
PoolBuilds ==
    {[d \in PoolDirs |-> BuildTimeout],
     [d \in PoolDirs |-> IF DirIndex(d) = 1 THEN BuildOk(TextNullMetadata)
                         ELSE BuildNonzero]}

InitPool ==
    /\ script = "check_privileges"
    /\ toolInstalled = TRUE
    /\ failOnHigh = FALSE
    /\ jsonArg = FALSE
    /\ kustomizations \in {PoolDirs, {DirList[1]}, {}}
    /\ \E builds \in PoolBuilds : buildOut = [d \in kustomizations |-> builds[d]]
    /\ pcMain = "start"
    /\ task = [d \in kustomizations |-> QueuedTask]
    /\ findings = <<>>
    /\ buildCalls = [d \in kustomizations |-> 0]
    /\ collected = {}
    /\ failedDirs = {}
    /\ numFindings = 0
    /\ printed = <<>>
    /\ jsonReport = EmptyDict
    /\ exitCode = -1
    /\ ValidatorIdle
    /\ PureIdle

\* changed paths: those of the repository, an absolute path and a path
\* through ".."
WalkPaths ==
    ChangedPaths
    \cup {<<"/", "apps", "parent", "deployment.yaml">>, <<"/", "deployment.yaml">>,
          <<"apps", "..", "secrets.yaml">>}

InitWalk ==
    /\ ProcIdle /\ PipeIdle
    /\ RuleIdle /\ ParseIdle /\ DiffIdle
    /\ markers \in SUBSET (RepoDirs \cup {<<>>})
    /\ scanDirsOnDisk \in ScanDirChoices(markers)
    /\ argChangedFiles \in
          {<<p>> : p \in WalkPaths}
          \cup {<<>>, <<<<"/", "deployment.yaml">>, <<"apps", "parent", "deployment.yaml">>>>}
    /\ retAffected = EmptyDict
    /\ pcMap = "start"
    /\ retKustomizations = {}
    /\ pcKust = "start"
    /\ pendingFiles = <<>> /\ current = <<>>

\* affected = set(); the for loop begins
KustomizationsBegin ==
    /\ pcKust = "start"
    /\ retKustomizations' = {}
    /\ pendingFiles' = argChangedFiles
    /\ pcKust' = "loop"
    /\ UNCHANGED <<scanVars, validatorVars, ruleVars, parseVars, diffVars, pipeVars>>
    /\ UNCHANGED <<markers, argChangedFiles, scanDirsOnDisk, retAffected, pcMap, current>>

\* `for file_path in changed_files`: the filter, then `current = path.parent`
KustomizationsNextFile ==
    /\ pcKust = "loop"
    /\ pendingFiles # <<>>
    /\ LET path == PathParts(Head(pendingFiles))
       IN IF ~InExistingScanDirectory(path, scanDirsOnDisk)
          THEN /\ pendingFiles' = Tail(pendingFiles)
               /\ UNCHANGED <<current, pcKust>>
          ELSE /\ current' = Parent(path)
               /\ pcKust' = "walking"
               /\ UNCHANGED pendingFiles
    /\ UNCHANGED <<scanVars, validatorVars, ruleVars, parseVars, diffVars, pipeVars>>
    /\ UNCHANGED <<markers, argChangedFiles, scanDirsOnDisk, retAffected, pcMap,
                   retKustomizations>>

\* one test of `while current != Path(".")` and one pass through its body
KustomizationsWalkStep ==
    /\ pcKust = "walking"
    /\ IF current = <<>>
       THEN /\ pcKust' = "loop"
            /\ pendingFiles' = Tail(pendingFiles)
            /\ UNCHANGED <<retKustomizations, current>>
       ELSE IF HasKustomization(current)
       THEN /\ retKustomizations' = retKustomizations \cup {current}
            /\ pcKust' = "loop"
            /\ pendingFiles' = Tail(pendingFiles)
            /\ UNCHANGED current
       ELSE /\ current' = Parent(current)
            /\ UNCHANGED <<retKustomizations, pendingFiles, pcKust>>
    /\ UNCHANGED <<scanVars, validatorVars, ruleVars, parseVars, diffVars, pipeVars>>
    /\ UNCHANGED <<markers, argChangedFiles, scanDirsOnDisk, retAffected, pcMap>>

\* return affected
KustomizationsReturn ==
    /\ pcKust = "loop"
    /\ pendingFiles = <<>>
    /\ pcKust' = "done"
    /\ UNCHANGED <<scanVars, validatorVars, ruleVars, parseVars, diffVars, pipeVars>>
    /\ UNCHANGED <<markers, argChangedFiles, scanDirsOnDisk, retAffected, pcMap,
                   retKustomizations, pendingFiles, current>>

\* the steps of the main thread inside check_all
MainThread ==
    \/ CheckAllSubmit
    \/ \E d \in kustomizations : Collect(d)
    \/ CheckAllReturn

\* the steps of the pool on the task of one directory
Worker(d) ==
    /\ d \in kustomizations
    /\ (TaskStart(d) \/ TaskBuild(d) \/ TaskAppend(d) \/ TaskFinish(d))

\* the steps of the two directory mappers
Mapper ==
    \/ KustomizationsBegin
    \/ KustomizationsNextFile
    \/ KustomizationsWalkStep
    \/ KustomizationsReturn
    \/ GetAffectedManifestsCall

NextTerm ==
    \/ MainThread
    \/ \E d \in PoolDirs : Worker(d)
    \/ Mapper

\* every thread that can take a step is scheduled in the end, and every
\* external command returns or hits its timeout
SpecTerm ==
    /\ (InitPool \/ InitWalk)
    /\ [][NextTerm]_vars
    /\ WF_vars(MainThread)
    /\ \A d \in PoolDirs : WF_vars(Worker(d))
    /\ WF_vars(Mapper)

\* check_all has returned and every task was run to its end and collected
PoolDrained ==
    /\ pcMain = "returned"
    /\ collected = kustomizations
    /\ \A d \in kustomizations :
          task[d].st \in {"done", "raised"} /\ buildCalls[d] = 1

\* C25: check_all returns in the end for every set of directories, also one
\* larger than the pool, every task having been run to its end and
\* collected; get_affected_kustomizations and get_affected_manifests return
\* in the end for every input path.
NoOperationBlocks ==
    /\ (pcMain = "start") ~> PoolDrained
    /\ (pcKust = "start") ~> (pcKust = "done")
    /\ (pcMap = "start") ~> (pcMap = "done")

\* C25 witness: check_all returned after the pool ran one task more than it
\* has workers
LargeSetDrained == PoolDrained /\ Cardinality(kustomizations) = 4 + 1

----------------------------------------------------------------------------
(* Properties of the mapper *)

\* the lengths of the proper ancestors of the path (the root excluded) that
\* hold the marker file
MarkerAncestors(path) == {n \in 1..(Len(path) - 1) : SubSeq(path, 1, n) \in markers}

SetMax(S) == CHOOSE n \in S : \A k \in S : k <= n

\* C10: every changed path under an allow-listed top-level directory is
\* mapped to its nearest ancestor that holds kustomization.yaml, with
\* has_kustomization true, never to a farther marker ancestor; when no
\* ancestor holds the marker it is mapped to its immediate parent with
\* has_kustomization false.
NearestMarkerOwns ==
    pcMap = "done" =>
        \A i \in 1..Len(argChangedFiles) :
            LET path == PathParts(argChangedFiles[i])
                near == MarkerAncestors(path)
                owner == IF near # {} THEN SubSeq(path, 1, SetMax(near))
                         ELSE SubSeq(path, 1, Len(path) - 1)
            IN Len(path) >= 2 /\ path[1] \in SCAN_DIRECTORIES =>
                  /\ owner \in DOMAIN retAffected
                  /\ PathStr(path) \in retAffected[owner].files
                  /\ retAffected[owner].has_kustomization = (near # {})
                  /\ \A other \in DOMAIN retAffected \ {owner} :
                        PathStr(path) \notin retAffected[other].files

\* C10 witness: a file under apps/parent/child, with the marker in both
\* apps/parent and apps/parent/child, was mapped to apps/parent/child
NestedMappedToChild ==
    /\ pcMap = "done"
    /\ {<<"apps", "parent">>, <<"apps", "parent", "child">>} \subseteq markers
    /\ <<"apps", "parent", "child">> \in DOMAIN retAffected
    /\ "apps/parent/child/deployment.yaml" \in retAffected[<<"apps", "parent", "child">>].files
    /\ retAffected[<<"apps", "parent", "child">>].has_kustomization

----------------------------------------------------------------------------
(* Merging and filtering in the two mappers *)

\* the parsed changed paths that pass the allow-list test of get_affected_manifests
QualifyingPaths ==
    {path \in {PathParts(argChangedFiles[i]) : i \in 1..Len(argChangedFiles)} :
        path # <<>> /\ path[1] \in SCAN_DIRECTORIES}

\* the directory a qualifying path belongs to: its nearest marker ancestor,
\* else its immediate parent
OwningDir(path) ==
    IF MarkerAncestors(path) # {} THEN SubSeq(path, 1, SetMax(MarkerAncestors(path)))
    ELSE SubSeq(path, 1, Len(path) - 1)

Reverse(seq) == [i \in 1..Len(seq) |-> seq[Len(seq) + 1 - i]]

\* C11: the returned mapping has one entry per owning directory of a
\* qualifying changed path; the entry's files are exactly the qualifying
\* paths owned by the directory, its has_kustomization is the OR of their
\* flags; and the same mapping is returned for the reversed list and for the
\* list with every entry repeated.
MergedPerDirectory ==
    pcMap = "done" =>
        /\ DOMAIN retAffected = {OwningDir(path) : path \in QualifyingPaths}
        /\ \A dir \in DOMAIN retAffected :
              LET owned == {path \in QualifyingPaths : OwningDir(path) = dir}
              IN /\ retAffected[dir].files = {PathStr(path) : path \in owned}
                 /\ retAffected[dir].has_kustomization
                       = (\E path \in owned : MarkerAncestors(path) # {})
        /\ GetAffectedManifests(Reverse(argChangedFiles)) = retAffected
        /\ GetAffectedManifests(argChangedFiles \o argChangedFiles) = retAffected

\* C11 witness: two changed files under the same marker directory were
\* merged into one entry
TwoFilesMerged ==
    /\ pcMap = "done"
    /\ <<"apps", "parent">> \in DOMAIN retAffected
    /\ retAffected[<<"apps", "parent">>].has_kustomization
    /\ retAffected[<<"apps", "parent">>].files
          = {"apps/parent/deployment.yaml", "apps/parent/child/deployment.yaml"}

\* C12: a changed path that is not rooted under apps, infrastructure or
\* argocd adds no entry and no triggering file to either mapper's result;
\* when no changed path is rooted there, both results are empty, whatever
\* directories hold a marker.
OutsidePathsIgnored ==
    LET outside == {i \in 1..Len(argChangedFiles) :
                      LET path == PathParts(argChangedFiles[i])
                      IN path = <<>> \/ path[1] \notin SCAN_DIRECTORIES}
        inside == {i \in 1..Len(argChangedFiles) : i \notin outside}
        kept == [i \in 1..Cardinality(inside) |->
                    argChangedFiles[CHOOSE j \in inside :
                        Cardinality({k \in inside : k < j}) = i - 1]]
    IN /\ pcMap = "done" =>
            /\ inside = {} => retAffected = EmptyDict
            /\ retAffected = GetAffectedManifests(kept)
            /\ \A i \in outside : \A dir \in DOMAIN retAffected :
                  PathStr(PathParts(argChangedFiles[i])) \notin retAffected[dir].files
       /\ pcKust = "done" =>
            /\ inside = {} => retKustomizations = {}
            /\ retKustomizations = GetAffectedKustomizations(kept, scanDirsOnDisk)

\* C12 witness: a change set of paths under docs and the repository root
\* only, with a marker in docs, went through both mappers
OutsideOnlyMapped ==
    /\ pcMap = "done" /\ pcKust = "done"
    /\ <<"docs">> \in markers
    /\ Len(argChangedFiles) = 2
    /\ argChangedFiles[1] = <<"docs", "deployment.yaml">>
    /\ argChangedFiles[2] = <<"README.md">>
    /\ retAffected = EmptyDict /\ retKustomizations = {}

\* the changed path is rooted under a scan directory
UnderScanDirectory(path) == path # <<>> /\ path[1] \in SCAN_DIRECTORIES

\* no directory above the path, below the repository root, holds
\* kustomization.yaml
NoMarkerAncestor(path) ==
    \A k \in 1..(Len(path) - 1) : SubSeq(path, 1, k) \notin markers

\* C30: when apps, infrastructure and argocd all exist, the set
\* get_affected_kustomizations returns is the set of keys of the mapping
\* get_affected_manifests returns whose has_kustomization is true; a changed
\* path under a scan directory with no marker ancestor is a triggering file
\* of a raw entry for its parent in the mapping, and its parent is not in
\* the set.
MappersAgree ==
    pcMap = "done" /\ pcKust = "done" /\ scanDirsOnDisk = SCAN_DIRECTORIES =>
        /\ retKustomizations
              = {dir \in DOMAIN retAffected : retAffected[dir].has_kustomization}
        /\ \A i \in 1..Len(argChangedFiles) :
              LET path == PathParts(argChangedFiles[i])
              IN UnderScanDirectory(path) /\ NoMarkerAncestor(path) =>
                    /\ Parent(path) \in DOMAIN retAffected
                    /\ ~retAffected[Parent(path)].has_kustomization
                    /\ PathStr(path) \in retAffected[Parent(path)].files
                    /\ Parent(path) \notin retKustomizations

\* C30 witness: both mappers went through a change set with a file under a
\* marker and a file with no marker above it; the mapping holds a raw entry
\* more than the set
KustomizeAndRawMapped ==
    /\ pcMap = "done" /\ pcKust = "done"
    /\ scanDirsOnDisk = SCAN_DIRECTORIES
    /\ Cardinality(retKustomizations) = 1
    /\ Cardinality(DOMAIN retAffected) = 2
    /\ \E i \in 1..Len(argChangedFiles) :
          /\ UnderScanDirectory(PathParts(argChangedFiles[i]))
          /\ NoMarkerAncestor(PathParts(argChangedFiles[i]))

----------------------------------------------------------------------------
(* Child pipeline: generate_pipeline.generate_validation_job,              *)
(* generate_child_pipeline, find_all_manifests and main                    *)

DEFAULT_RUNNER_TAG == "shared"

\* the directory names of the model in the order of Python's str comparison
NameOrder ==
    <<"apps", "argocd", "child", "deep", "docs", "infrastructure", "leaf", "parent",
      "parent-child">>

NameRank(name) == CHOOSE i \in 1..Len(NameOrder) : NameOrder[i] = name

RECURSIVE PathLess(_, _)
\* Path.__lt__: the parts are compared as tuples of strings
PathLess(a, b) ==
    IF a = <<>> THEN b # <<>>
    ELSE IF b = <<>> THEN FALSE
    ELSE IF Head(a) = Head(b) THEN PathLess(Tail(a), Tail(b))
    ELSE NameRank(Head(a)) < NameRank(Head(b))

RECURSIVE SortedPaths(_)
\* sorted(manifests)
SortedPaths(dirs) ==
    IF dirs = {} THEN <<>>
    ELSE LET least == CHOOSE d \in dirs : \A e \in dirs \ {d} : PathLess(d, e)
         IN <<least>> \o SortedPaths(dirs \ {least})

\* the file names of the model in the order of Python's str comparison
FileOrder ==
    <<"apps", "apps/deployment.yaml", "apps/parent-child/deployment.yaml",
      "apps/parent/child/deployment.yaml",
      "apps/parent/child/leaf/deep/deployment.yaml",
      "apps/parent/child/leaf/deployment.yaml", "apps/parent/deployment.yaml",
      "argocd/app.yaml", "argocd/project.yaml">>

\* sorted(source_files or [])
SortedFiles(files) == SelectSeq(FileOrder, LAMBDA f : f \in files)

RECURSIVE Join(_, _)
\* sep.join(strings)
Join(strings, sep) ==
    IF strings = <<>> THEN ""
    ELSE IF Len(strings) = 1 THEN strings[1]
    ELSE strings[1] \o sep \o Join(Tail(strings), sep)

\* str(manifest_dir).replace("/", "-")
JobName(manifest_dir) == IF manifest_dir = <<>> THEN "." ELSE Join(manifest_dir, "-")

\* component type from the first path part
ComponentType(manifest_dir) ==
    LET first == IF manifest_dir # <<>> THEN manifest_dir[1] ELSE "argocd"
    IN IF first = "apps" THEN "app" ELSE first

\* the script of a job; the echo lines are left out
JobScript(manifest_dir, job_type, source_files) ==
    IF job_type = "validate-kustomize"
    THEN [script |-> <<"kustomize build " \o PathStr(manifest_dir) \o " --enable-helm",
                       "cat /tmp/manifests.yaml | kubeconform -strict">>]
    ELSE IF job_type = "validate-raw"
    THEN [script |-> <<"kubeconform -strict " \o Join(SortedFiles(source_files), " ")>>]
    ELSE EmptyDict

\* generate_validation_job: the one-entry dict as its key and its value
GenerateValidationJob(manifest_dir, job_type, source_files) ==
    [key |-> job_type \o ":" \o JobName(manifest_dir),
     config |-> Merge([stage |-> "validate",
                       image |-> "${CI_IMAGE}",
                       tags |-> <<DEFAULT_RUNNER_TAG>>,
                       variables |-> [MANIFEST_DIR |-> PathStr(manifest_dir),
                                      COMPONENT_TYPE |-> ComponentType(manifest_dir),
                                      WRAPPER_HELM_CONFIG |->
                                          "${CI_PROJECT_DIR}/.docker/config.json"]],
                      JobScript(manifest_dir, job_type, source_files))]

\* pipeline[key] = value, and pipeline.update({key: value})
DictSet(pipeline, key, value) ==
    [k \in DOMAIN pipeline \cup {key} |-> IF k = key THEN value ELSE pipeline[k]]

PipelineHeader ==
    [variables |-> [CI_IMAGE |-> "${CI_IMAGE}",
                    KUBERNETES_VERSION |-> "${KUBERNETES_VERSION}",
                    KUSTOMIZE_VERSION |-> "${KUSTOMIZE_VERSION}",
                    KUBECONFORM_VERSION |-> "${KUBECONFORM_VERSION}",
                    CI_REGISTRY |-> "${CI_REGISTRY}",
                    CI_REGISTRY_USER |-> "${CI_REGISTRY_USER}",
                    CI_REGISTRY_PASSWORD |-> "${CI_REGISTRY_PASSWORD}"],
     stages |-> <<"validate">>]

NoChangesJob ==
    [stage |-> "validate", image |-> "${CI_IMAGE}", tags |-> <<DEFAULT_RUNNER_TAG>>,
     script |-> <<"echo 'No manifest changes detected - validation skipped'">>]

\* the body of `for manifest_dir in sorted(manifests)`
AddJob(pipeline, manifest_dir, manifest_info) ==
    LET kustomize == GenerateValidationJob(manifest_dir, "validate-kustomize", {})
        raw == GenerateValidationJob(manifest_dir, "validate-raw", manifest_info.files)
    IN IF manifest_info.has_kustomization
       THEN DictSet(pipeline, kustomize.key, kustomize.config)
       ELSE IF manifest_info.files # {} THEN DictSet(pipeline, raw.key, raw.config)
       ELSE pipeline

RECURSIVE JobLoop(_, _, _)
JobLoop(dirs, manifests, pipeline) ==
    IF dirs = <<>> THEN pipeline
    ELSE JobLoop(Tail(dirs), manifests, AddJob(pipeline, Head(dirs), manifests[Head(dirs)]))

GenerateChildPipeline(manifests) ==
    IF DOMAIN manifests = {} THEN DictSet(PipelineHeader, "no-changes", NoChangesJob)
    ELSE JobLoop(SortedPaths(DOMAIN manifests), manifests, PipelineHeader)

\* find_all_manifests: every directory under a scan directory that holds
\* kustomization.yaml
FindAllManifests ==
    [dir \in {m \in markers : m # <<>> /\ m[1] \in SCAN_DIRECTORIES} |->
        [has_kustomization |-> TRUE, files |-> {}]]

FallbackJob ==
    [stage |-> "validate", image |-> "${CI_IMAGE}", tags |-> <<DEFAULT_RUNNER_TAG>>,
     script |-> <<"echo 'Fallback job - something went wrong with pipeline generation'">>]

\* a safety check that injects the fallback job into every pipeline
InjectFallbackAlways(pipeline) == DictSet(pipeline, "fallback-job", FallbackJob)

\* `if len(child_pipeline) <= 3`: inject the fallback job
InjectFallback(pipeline) ==
    IF Cardinality(DOMAIN pipeline) <= 3
    THEN DictSet(pipeline, "fallback-job", FallbackJob)
    ELSE pipeline

\* the change sets get_changed_files can return to main: <<>> when nothing
\* changed or git failed
ChangeSets == UNION {[1..n -> ChangedPaths] : n \in 0..MaxChanged}

\* the scan directories of the repository that can hold a marker
ScanRepoDirs == {dir \in RepoDirs : dir[1] \in SCAN_DIRECTORIES}

InitPipeline ==
    /\ ProcIdle
    /\ RuleIdle /\ ParseIdle /\ DiffIdle
    /\ markers \in SUBSET ScanRepoDirs
    /\ argChangedFiles = <<>>
    /\ retAffected = EmptyDict /\ pcMap = "idle"
    /\ scanDirsOnDisk = {} /\ retKustomizations = {} /\ pcKust = "idle"
    /\ pendingFiles = <<>> /\ current = <<>>
    /\ argManifests = EmptyDict
    /\ childPipeline = EmptyDict
    /\ pipelineFile = EmptyDict
    /\ pcPipe = "start"

\* changed_files = get_changed_files()
PipelineGetChangedFiles ==
    /\ pcPipe = "start"
    /\ \E changed_files \in ChangeSets : argChangedFiles' = changed_files
    /\ pcPipe' = "resolved"
    /\ UNCHANGED <<scanVars, validatorVars, ruleVars, parseVars, diffVars>>
    /\ UNCHANGED <<markers, retAffected, pcMap, scanDirsOnDisk, retKustomizations, pcKust,
                   pendingFiles, current>>
    /\ UNCHANGED <<argManifests, childPipeline, pipelineFile>>

\* affected_manifests: from the change set, or every manifest when it is empty
PipelineAffected ==
    /\ pcPipe = "resolved"
    /\ argManifests' = IF argChangedFiles # <<>> THEN GetAffectedManifests(argChangedFiles)
                       ELSE FindAllManifests
    /\ pcPipe' = "mapped"
    /\ UNCHANGED <<scanVars, validatorVars, ruleVars, parseVars, diffVars, mapVars>>
    /\ UNCHANGED <<childPipeline, pipelineFile>>

\* generate_child_pipeline, the workflow key and the safety check
PipelineGenerate ==
    /\ pcPipe = "mapped"
    /\ childPipeline' =
          InjectFallback(DictSet(GenerateChildPipeline(argManifests), "workflow",
                                 [rules |-> <<[when |-> "always"]>>]))
    /\ pcPipe' = "generated"
    /\ UNCHANGED <<scanVars, validatorVars, ruleVars, parseVars, diffVars, mapVars>>
    /\ UNCHANGED <<argManifests, pipelineFile>>

\* yaml.dump(child_pipeline, f, sort_keys=False): the mapping, key by key
PipelineWrite ==
    /\ pcPipe = "generated"
    /\ pipelineFile' = [key \in DOMAIN childPipeline |-> childPipeline[key]]
    /\ pcPipe' = "written"
    /\ UNCHANGED <<scanVars, validatorVars, ruleVars, parseVars, diffVars, mapVars>>
    /\ UNCHANGED <<argManifests, childPipeline>>

NextPipeline ==
    PipelineGetChangedFiles \/ PipelineAffected \/ PipelineGenerate \/ PipelineWrite

SpecPipeline == InitPipeline /\ [][NextPipeline]_vars

\* one call of generate_child_pipeline on any mapping: directories whose
\* names differ only in "/" and "-", a one-part directory and Path(".")
ChildDirs == {<<"apps", "parent", "child">>, <<"apps", "parent-child">>, <<"argocd">>, <<>>}

ManifestEntries ==
    [has_kustomization : BOOLEAN,
     files : {{}, {"argocd/project.yaml"}, {"argocd/project.yaml", "argocd/app.yaml"}}]

ManifestMappings == UNION {[dirs -> ManifestEntries] : dirs \in SUBSET ChildDirs}

InitChild ==
    /\ ProcIdle
    /\ RuleIdle /\ ParseIdle /\ DiffIdle /\ MapIdle
    /\ argManifests \in ManifestMappings
    /\ childPipeline = EmptyDict
    /\ pipelineFile = EmptyDict
    /\ pcPipe = "call"

\* pipeline = generate_child_pipeline(manifests)
GenerateChildPipelineCall ==
    /\ pcPipe = "call"
    /\ childPipeline' = GenerateChildPipeline(argManifests)
    /\ pcPipe' = "returned"
    /\ UNCHANGED <<scanVars, validatorVars, ruleVars, parseVars, diffVars, mapVars>>
    /\ UNCHANGED <<argManifests, pipelineFile>>

SpecChild == InitChild /\ [][GenerateChildPipelineCall]_vars

----------------------------------------------------------------------------
(* The two consumers of a change set in one repository state:            *)
(* generate_pipeline.main and PrivilegeChecker.check_all(scan_all=False) *)

\* a check_all that scans every kustomization when nothing changed, as
\* generate_pipeline.main does
KustomizationsToScanOrAll(changed_files, on_disk) ==
    IF changed_files = <<>>
    THEN {m \in markers : m # <<>> /\ m[1] \in SCAN_DIRECTORIES}
    ELSE GetAffectedKustomizations(changed_files, on_disk)

\* check_all without scan_all:
\* kustomizations = self.get_affected_kustomizations(changed_files)
KustomizationsToScan(changed_files, on_disk) ==
    GetAffectedKustomizations(changed_files, on_disk)

\* what the build of a directory does in these runs
ConsumerBuilds == {BuildTimeout, BuildOk(TextMedium)}

\* both scripts run on the same checkout and the same commits; they share no
\* state, so the run of generate_pipeline.main is followed by the run of
\* check_all
InitConsumers ==
    /\ script = "check_privileges"
    /\ toolInstalled = TRUE
    /\ failOnHigh = FALSE
    /\ jsonArg = FALSE
    /\ kustomizations = {}
    /\ buildOut = <<>>
    /\ pcMain = "begin"
    /\ task = <<>>
    /\ findings = <<>>
    /\ buildCalls = <<>>
    /\ collected = {}
    /\ failedDirs = {}
    /\ numFindings = 0
    /\ printed = <<>>
    /\ jsonReport = EmptyDict
    /\ exitCode = -1
    /\ ValidatorIdle
    /\ RuleIdle /\ ParseIdle /\ DiffIdle
    /\ markers \in SUBSET ScanRepoDirs
    /\ scanDirsOnDisk \in ScanDirChoices(markers)
    /\ argChangedFiles = <<>>
    /\ retAffected = EmptyDict /\ pcMap = "idle"
    /\ retKustomizations = {} /\ pcKust = "idle"
    /\ pendingFiles = <<>> /\ current = <<>>
    /\ argManifests = EmptyDict
    /\ childPipeline = EmptyDict
    /\ pipelineFile = EmptyDict
    /\ pcPipe = "start"

\* check_all(scan_all=False) up to the print of the kustomizations to scan:
\* the same changed files, mapped by get_affected_kustomizations
CheckAllAffected ==
    /\ script = "check_privileges"
    /\ pcMain = "begin"
    /\ pcPipe = "written"
    /\ kustomizations' =
          {PathStr(dir) : dir \in KustomizationsToScan(argChangedFiles, scanDirsOnDisk)}
    /\ buildOut' \in [kustomizations' -> ConsumerBuilds]
    /\ task' = [d \in kustomizations' |-> QueuedTask]
    /\ buildCalls' = [d \in kustomizations' |-> 0]
    /\ pcMain' = "start"
    /\ UNCHANGED nonScanVars
    /\ UNCHANGED <<script, toolInstalled, failOnHigh, jsonArg, findings, collected,
                   failedDirs, numFindings, printed, jsonReport, exitCode>>

NextConsumers ==
    \/ PipelineGetChangedFiles
    \/ PipelineAffected
    \/ PipelineGenerate
    \/ PipelineWrite
    \/ CheckAllAffected
    \/ CheckAllSubmit
    \/ \E d \in kustomizations : TaskStart(d)
    \/ \E d \in kustomizations : TaskBuild(d)
    \/ \E d \in kustomizations : TaskAppend(d)
    \/ \E d \in kustomizations : TaskFinish(d)
    \/ \E d \in kustomizations : Collect(d)
    \/ CheckAllReturn

SpecConsumers == InitConsumers /\ [][NextConsumers]_vars

----------------------------------------------------------------------------
(* Properties of the child pipeline *)

\* the keys of a pipeline that are jobs
JobKeys(pipeline) == DOMAIN pipeline \ {"variables", "stages", "workflow"}

\* C13: the pipeline main writes has the variables, stages and workflow keys
\* and at least one job, for every change set and every set of marker
\* directories; when the fallback-job is in it, it is the only job.
AlwaysOneJob ==
    pcPipe = "written" =>
        /\ {"variables", "stages", "workflow"} \subseteq DOMAIN pipelineFile
        /\ JobKeys(pipelineFile) # {}
        /\ "fallback-job" \in DOMAIN pipelineFile
              => JobKeys(pipelineFile) = {"fallback-job"}

\* C13 witness: files changed, none under a scan directory, so the mapping
\* is empty although markers exist, and the written pipeline holds the
\* no-changes job only
NoChangesWritten ==
    /\ pcPipe = "written"
    /\ argChangedFiles # <<>>
    /\ markers # {}
    /\ argManifests = EmptyDict
    /\ JobKeys(pipelineFile) = {"no-changes"}

\* the pipeline holds the job generate_validation_job makes for the directory
HasJob(pipeline, manifest_dir, job_type, source_files) ==
    LET job == GenerateValidationJob(manifest_dir, job_type, source_files)
    IN job.key \in DOMAIN pipeline /\ pipeline[job.key] = job.config

\* C14: in the pipeline generate_child_pipeline returns, every entry with
\* has_kustomization true has a validate-kustomize job for its directory and
\* no validate-raw job for it, every entry with has_kustomization false and
\* files has a validate-raw job for its directory that lists exactly its
\* files, and the no-changes job is there iff the mapping is empty.
JobTypePerEntry ==
    pcPipe = "returned" =>
        /\ \A dir \in DOMAIN argManifests :
              LET info == argManifests[dir]
                  raw_key == "validate-raw:" \o JobName(dir)
              IN /\ info.has_kustomization =>
                       /\ HasJob(childPipeline, dir, "validate-kustomize", {})
                       /\ ~(/\ raw_key \in DOMAIN childPipeline
                            /\ childPipeline[raw_key].variables.MANIFEST_DIR = PathStr(dir))
                 /\ ~info.has_kustomization /\ info.files # {} =>
                       HasJob(childPipeline, dir, "validate-raw", info.files)
        /\ ("no-changes" \in DOMAIN childPipeline) = (DOMAIN argManifests = {})

\* the entry gets a job: it is kustomize-managed, or raw with a triggering file
Qualifies(manifest_info) ==
    manifest_info.has_kustomization \/ manifest_info.files # {}

\* the key of the job of a qualifying entry
JobKeyOf(manifest_dir, manifest_info) ==
    (IF manifest_info.has_kustomization THEN "validate-kustomize" ELSE "validate-raw")
    \o ":" \o JobName(manifest_dir)

\* the jobs of a pipeline that validate a directory
ValidationJobs(pipeline) == JobKeys(pipeline) \ {"no-changes", "fallback-job"}

\* C27: in the pipeline generate_child_pipeline returns, no two qualifying
\* entries of the mapping have the same job key, so there are as many
\* validation jobs as qualifying entries and each entry's job is the one made
\* for its directory.
JobKeysUnique ==
    pcPipe = "returned" =>
        LET qualifying == {dir \in DOMAIN argManifests : Qualifies(argManifests[dir])}
        IN /\ \A a \in qualifying : \A b \in qualifying \ {a} :
                 JobKeyOf(a, argManifests[a]) # JobKeyOf(b, argManifests[b])
           /\ Cardinality(ValidationJobs(childPipeline)) = Cardinality(qualifying)
           /\ \A dir \in qualifying :
                 childPipeline[JobKeyOf(dir, argManifests[dir])].variables.MANIFEST_DIR
                    = PathStr(dir)

\* the directories with kustomization.yaml under the scan directories
MarkedDirs == {m \in markers : m # <<>> /\ m[1] \in SCAN_DIRECTORIES}

\* both consumers were given the empty change set
EmptyChangeSet == pcPipe # "start" /\ argChangedFiles = <<>>

====
